---- MODULE Spec2Model ----
(***************************************************************************)
(* Timovate: the FileMover engine of src/src/lib.rs.                       *)
(*                                                                         *)
(* A filesystem is a function from the paths that exist to their nodes; a  *)
(* path is the sequence of its components, the first one naming the root.  *)
(* The engine walks the tree under one root breadth first, one level at a  *)
(* time, the nodes of a level being processed by parallel workers, and     *)
(* renames what qualifies to the mirrored path under the other root.       *)
(***************************************************************************)
EXTENDS Integers, Sequences, FiniteSets, TLC

VARIABLES
    fs,            \* the filesystem: [existing full paths -> Node]
    now,           \* SystemTime::now(), in seconds
    failRename,    \* source paths whose rename(2) the system refuses (EACCES, EXDEV)
    cfg,           \* the FileMover's immutable fields (from the Cli)
    stats,         \* FileStats: files_moved, dirs_moved, total_size
    pc,            \* the coordinating thread: "idle", "loop", "level", "done"
    queue,         \* bfs_and_process: the VecDeque of WorkItems <<src, rel>>
    current_level, \* the Vec of WorkItems handed to the workers
    workers,       \* per index of current_level: the worker's position and result
    result,        \* what the last execute() returned: "none", "Ok", "Err"
    runs,          \* number of execute() calls made on this engine
    hist           \* history: what was visited, renamed and counted so far

vars == <<fs, now, failRename, cfg, stats, pc, queue, current_level, workers,
          result, runs, hist>>

-----------------------------------------------------------------------------
(* Bounds of the model *)

MaxNodes == 3      \* entries under the traversed root in an initial tree
MaxDays  == 2      \* largest day count n of the configured comparison
MaxRuns  == 2      \* execute() calls on one engine
MaxEngines == 2    \* engines built one after the other on one filesystem
MaxOdd   == 1      \* entries of an initial tree that are no file and no readable directory
MaxDayLen == 3     \* characters of a day string handed to FileMover::new

(* 24 * 60 * 60 *)
SecondsPerDay == 86400

Names == {"a", "b"}

SourceRoot == <<"src">>
TemporaryRoot == <<"tmp">>

-----------------------------------------------------------------------------
(* Paths *)

Last(p) == p[Len(p)]
Parent(p) == SubSeq(p, 1, Len(p) - 1)

IsPrefix(p, q) == Len(p) <= Len(q) /\ SubSeq(q, 1, Len(p)) = p
IsStrictPrefix(p, q) == Len(p) < Len(q) /\ SubSeq(q, 1, Len(p)) = p

\* Path::join
Join(base, rel) == base \o rel

\* the part of q below its prefix p
Below(p, q) == SubSeq(q, Len(p) + 1, Len(q))

\* a total order on names and on paths, used where the code relies on the
\* order in which read_dir enumerates a directory
NameRank(n) == IF n = "a" THEN 1 ELSE 2

RECURSIVE PathCode(_)
PathCode(p) == IF p = <<>> THEN 0 ELSE 3 * PathCode(Parent(p)) + NameRank(Last(p))

-----------------------------------------------------------------------------
(* Nodes *)

\* Metadata::len of a directory or of a symlink is not 0: it is the size of
\* the directory's inode data, or the length of the link's target
DirNode(r) ==
    [kind |-> "dir", modified |-> 0, len |-> 4096, readable |-> r, search |-> TRUE]
FileNode(m, l) ==
    [kind |-> "file", modified |-> m, len |-> l, readable |-> TRUE, search |-> TRUE]
SymlinkNode ==
    [kind |-> "symlink", modified |-> 0, len |-> 1000, readable |-> TRUE, search |-> TRUE]
OtherNode ==
    [kind |-> "other", modified |-> 0, len |-> 0, readable |-> TRUE, search |-> TRUE]

\* a directory that can be listed and written but not searched (mode rw-):
\* read_dir gives its entries and the metadata of none of them can be read
DirNodeNoSearch == [DirNode(TRUE) EXCEPT !.search = FALSE]

\* Path::exists
Exists(f, p) == p \in DOMAIN f

\* fs::read_dir on a readable directory: the paths of its entries
Entries(f, dir) == {p \in DOMAIN f : Len(p) = Len(dir) + 1 /\ IsPrefix(dir, p)}

\* fs::read_dir succeeds
CanList(f, dir) == Exists(f, dir) /\ f[dir].kind = "dir" /\ f[dir].readable

\* fs::symlink_metadata succeeds: the entry is there and the directory that
\* holds it can be searched
CanStat(f, p) == Exists(f, p) /\ Exists(f, Parent(p)) /\ f[Parent(p)].search

\* every path at or below p
Subtree(f, p) == {q \in DOMAIN f : IsPrefix(p, q)}

-----------------------------------------------------------------------------
(* Exclusion patterns.  A compiled Regex is modelled by the two shapes the   *)
(* program is used with: an unanchored literal, which matches a path string  *)
(* when some component of the path is that literal, and a literal anchored   *)
(* at the end of the string ("name$"), which matches when the last component *)
(* is that literal.                                                          *)

Contains(n) == [anchored |-> FALSE, name |-> n]
EndsWith(n) == [anchored |-> TRUE, name |-> n]

\* Regex::is_match on the path's string
RegexIsMatch(regex, p) ==
    IF regex.anchored
    THEN Len(p) > 0 /\ Last(p) = regex.name
    ELSE \E i \in 1..Len(p) : p[i] = regex.name

\* the check made at the head of process_node and twice in is_directory_matching
is_excluded(c, p) ==
    \E i \in 1..Len(c.exclude_regex) : RegexIsMatch(c.exclude_regex[i], p)

-----------------------------------------------------------------------------
(* Time predicate *)

Exact(n)    == [tag |-> "Exact", n |-> n]
MoreThan(n) == [tag |-> "MoreThan", n |-> n]
LessThan(n) == [tag |-> "LessThan", n |-> n]

\* the distance in time whichever of the two comes first
AgeSecs_absolute(t, modified) == IF t >= modified THEN t - modified ELSE modified - t

\* SystemTime::duration_since(..).unwrap_or(Duration::ZERO).as_secs()
AgeSecs(t, modified) == IF t >= modified THEN t - modified ELSE 0

AgeDays(t, modified) == AgeSecs(t, modified) \div SecondsPerDay

\* the comparisons with their boundary included
CompareInclusive(tc, age_days) ==
    CASE tc.tag = "Exact"    -> age_days = tc.n
      [] tc.tag = "MoreThan" -> age_days >= tc.n
      [] tc.tag = "LessThan" -> age_days <= tc.n

Compare(tc, age_days) ==
    CASE tc.tag = "Exact"    -> age_days = tc.n
      [] tc.tag = "MoreThan" -> age_days > tc.n
      [] tc.tag = "LessThan" -> age_days < tc.n

is_file_matching(c, t, node) ==
    Compare(c.time_comparison, AgeDays(t, node.modified))

-----------------------------------------------------------------------------
(* Subtree matcher *)

\* is_directory_matching checking the exclusion of the directory only, not
\* of its entries
RECURSIVE is_directory_matching_lax(_, _, _, _)
is_directory_matching_lax(c, t, f, dir) ==
    IF is_excluded(c, dir) THEN FALSE
    ELSE IF ~CanList(f, dir) THEN FALSE
    ELSE \A path \in Entries(f, dir) :
            CASE ~CanStat(f, path)        -> TRUE
              [] f[path].kind = "symlink" -> TRUE
              [] f[path].kind = "dir"     ->
                    is_excluded(c, path) \/ is_directory_matching_lax(c, t, f, path)
              [] f[path].kind = "file"    ->
                    is_excluded(c, path) \/ is_file_matching(c, t, f[path])
              [] OTHER                    -> TRUE

\* is_directory_matching that does not look at the age of the files
RECURSIVE is_directory_matching_any_age(_, _, _, _)
is_directory_matching_any_age(c, t, f, dir) ==
    IF is_excluded(c, dir) THEN FALSE
    ELSE IF ~CanList(f, dir) THEN FALSE
    ELSE \A path \in Entries(f, dir) :
            /\ ~is_excluded(c, path)
            /\ CASE ~CanStat(f, path)    -> TRUE
                 [] f[path].kind = "dir" -> is_directory_matching_any_age(c, t, f, path)
                 [] OTHER                -> TRUE

RECURSIVE is_directory_matching(_, _, _, _)
is_directory_matching(c, t, f, dir) ==
    IF is_excluded(c, dir) THEN FALSE
    ELSE IF ~CanList(f, dir) THEN FALSE
    ELSE \A path \in Entries(f, dir) :
            /\ ~is_excluded(c, path)
            /\ CASE ~CanStat(f, path)        -> TRUE
                 [] f[path].kind = "symlink" -> TRUE
                 [] f[path].kind = "dir"     -> is_directory_matching(c, t, f, path)
                 [] f[path].kind = "file"    -> is_file_matching(c, t, f[path])
                 [] OTHER                    -> TRUE

\* is_directory_matching as the loop it is, read_dir enumerating the entries
\* of each directory by name, and backwards in the directories of rev
RECURSIVE is_directory_matching_ordered(_, _, _, _, _), is_directory_matching_entries(_, _, _, _, _)

is_directory_matching_entries(c, t, f, entries, rev) ==
    IF entries = <<>> THEN TRUE
    ELSE LET path == Head(entries)
         IN IF is_excluded(c, path) THEN FALSE
            ELSE IF ~CanStat(f, path)
                 THEN is_directory_matching_entries(c, t, f, Tail(entries), rev)
            ELSE IF f[path].kind = "symlink"
                 THEN is_directory_matching_entries(c, t, f, Tail(entries), rev)
            ELSE IF f[path].kind = "dir"
                 THEN IF ~is_directory_matching_ordered(c, t, f, path, rev) THEN FALSE
                      ELSE is_directory_matching_entries(c, t, f, Tail(entries), rev)
            ELSE IF f[path].kind = "file"
                 THEN IF ~is_file_matching(c, t, f[path]) THEN FALSE
                      ELSE is_directory_matching_entries(c, t, f, Tail(entries), rev)
            ELSE is_directory_matching_entries(c, t, f, Tail(entries), rev)

is_directory_matching_ordered(c, t, f, dir, rev) ==
    IF is_excluded(c, dir) THEN FALSE
    ELSE IF ~CanList(f, dir) THEN FALSE
    ELSE LET S == Entries(f, dir)
             up == CHOOSE q \in [1..Cardinality(S) -> S] :
                      \A i, j \in 1..Cardinality(S) :
                          i < j => PathCode(q[i]) < PathCode(q[j])
             entries == IF dir \in rev
                        THEN [i \in 1..Len(up) |-> up[Len(up) + 1 - i]]
                        ELSE up
         IN is_directory_matching_entries(c, t, f, entries, rev)

-----------------------------------------------------------------------------
(* Sizes.  calculate_directory_size fails (its ? operators) when a directory *)
(* beneath the path cannot be listed; SizeErr stands for that Err.           *)

SizeErr == -1

RECURSIVE calculate_directory_size(_, _), SizeOfEntries(_, _)

\* the loop counting the length of a symlink as it does that of a file
SizeOfEntries_with_links(f, S) ==
    IF S = {} THEN 0
    ELSE LET q == CHOOSE x \in S : TRUE
             rest == SizeOfEntries(f, S \ {q})
             mine == CASE ~CanStat(f, q)           -> SizeErr
                       [] f[q].kind \in {"symlink", "file"} -> f[q].len
                       [] f[q].kind = "dir"     -> calculate_directory_size(f, q)
                       [] OTHER                 -> 0
         IN IF rest = SizeErr \/ mine = SizeErr THEN SizeErr ELSE rest + mine

\* the loop of calculate_directory_size over the entries S of a directory
SizeOfEntries(f, S) ==
    IF S = {} THEN 0
    ELSE LET q == CHOOSE x \in S : TRUE
             rest == SizeOfEntries(f, S \ {q})
             mine == CASE ~CanStat(f, q)        -> SizeErr
                       [] f[q].kind = "symlink" -> 0
                       [] f[q].kind = "file"    -> f[q].len
                       [] f[q].kind = "dir"     -> calculate_directory_size(f, q)
                       [] OTHER                 -> 0
         IN IF rest = SizeErr \/ mine = SizeErr THEN SizeErr ELSE rest + mine

calculate_directory_size(f, path) ==
    IF ~CanList(f, path) THEN SizeErr ELSE SizeOfEntries(f, Entries(f, path))

-----------------------------------------------------------------------------
(* The system calls of the relocator *)

Prefixes(p) == {SubSeq(p, 1, k) : k \in 1..Len(p)}

\* fs::create_dir_all: fails when a component exists and is no directory
CreateDirAllOk(f, p) == \A q \in Prefixes(p) : Exists(f, q) => f[q].kind = "dir"

CreateDirAll(f, p) ==
    [q \in DOMAIN f \cup Prefixes(p) |-> IF q \in DOMAIN f THEN f[q] ELSE DirNode(TRUE)]

\* create_parent_directories(dest) succeeds
create_parent_directories_ok(f, dest) ==
    Exists(f, Parent(dest)) \/ CreateDirAllOk(f, Parent(dest))

create_parent_directories(f, dest) ==
    IF Exists(f, Parent(dest)) THEN f ELSE CreateDirAll(f, Parent(dest))

\* rename(2) putting the source in the place of whatever dest is
RenameOk_replacing(f, refused, src, dest) ==
    /\ Exists(f, src)
    /\ src \notin refused
    /\ Exists(f, Parent(dest)) /\ f[Parent(dest)].kind = "dir"
    /\ ~IsStrictPrefix(src, dest)

\* rename(2): the parent of dest must be a directory; a directory replaces
\* only an empty directory, anything else replaces only a non-directory;
\* a directory cannot be moved beneath itself
RenameOk(f, refused, src, dest) ==
    /\ Exists(f, src)
    /\ src \notin refused
    /\ Exists(f, Parent(dest)) /\ f[Parent(dest)].kind = "dir"
    /\ ~IsStrictPrefix(src, dest)
    /\ Exists(f, dest) /\ dest # src =>
          IF f[src].kind = "dir"
          THEN f[dest].kind = "dir" /\ Entries(f, dest) = {}
          ELSE f[dest].kind # "dir"

\* rename(2) leaving the source where it is
Rename_copying(f, src, dest) ==
    IF src = dest THEN f
    ELSE LET moved == Subtree(f, src)
             new   == {Join(dest, Below(src, q)) : q \in moved}
         IN [q \in DOMAIN f \cup new |->
                IF q \in new THEN f[Join(src, Below(dest, q))] ELSE f[q]]

Rename(f, src, dest) ==
    IF src = dest THEN f
    ELSE LET moved == Subtree(f, src)
             kept  == (DOMAIN f \ moved) \ {dest}
             new   == {Join(dest, Below(src, q)) : q \in moved}
         IN [q \in kept \cup new |->
                IF q \in new THEN f[Join(src, Below(dest, q))] ELSE f[q]]

-----------------------------------------------------------------------------
(* Construction: FileMover::new and parse_time_comparison.  A day string is  *)
(* the sequence of its characters.                                           *)

Digits == <<"0", "1", "2", "3", "4", "5", "6", "7", "8", "9">>

IsDigit(ch) == \E d \in 1..10 : Digits[d] = ch
DigitValue(ch) == (CHOOSE d \in 1..10 : Digits[d] = ch) - 1

RECURSIVE DecimalValue(_)
DecimalValue(s) ==
    IF s = <<>> THEN 0
    ELSE 10 * DecimalValue(SubSeq(s, 1, Len(s) - 1)) + DigitValue(s[Len(s)])

\* a Result: Ok(v) or Err
Ok(v) == [ok |-> TRUE, val |-> v]
Err   == [ok |-> FALSE, val |-> "Err"]

\* str::parse::<u64>: an optional '+' and then at least one digit
ParseU64(s) ==
    LET digits == IF s # <<>> /\ s[1] = "+" THEN Tail(s) ELSE s
    IN IF digits # <<>> /\ \A i \in 1..Len(digits) : IsDigit(digits[i])
       THEN Ok(DecimalValue(digits))
       ELSE Err

parse_time_comparison(input) ==
    IF input # <<>> /\ input[1] = "+" THEN
        LET days == ParseU64(Tail(input))
        IN IF days.ok THEN Ok(MoreThan(days.val)) ELSE Err
    ELSE IF input # <<>> /\ input[1] = "-" THEN
        LET days == ParseU64(Tail(input))
        IN IF days.ok THEN Ok(LessThan(days.val)) ELSE Err
    ELSE
        LET days == ParseU64(input)
        IN IF days.ok THEN Ok(Exact(days.val)) ELSE Err

\* a pattern string that does not compile
BadPattern == [anchored |-> FALSE, name |-> "["]

\* Regex::new taking every pattern
RegexNew_lenient(pattern) == Ok(pattern)

\* Regex::new
RegexNew(pattern) == IF pattern = BadPattern THEN Err ELSE Ok(pattern)

ZeroStats == [files_moved |-> 0, dirs_moved |-> 0, total_size |-> 0]

\* FileMover::new: Ok(the engine's fields) or Err
new(cli) ==
    LET time_comparison == parse_time_comparison(cli.days)
    IN IF ~time_comparison.ok THEN Err
       ELSE IF \E i \in 1..Len(cli.exclude) : ~RegexNew(cli.exclude[i]).ok THEN Err
       ELSE Ok([source          |-> cli.source,
                temporary       |-> cli.temporary,
                time_comparison |-> time_comparison.val,
                dry_run         |-> cli.dry_run,
                mode            |-> cli.mode,
                exclude_regex   |-> [i \in 1..Len(cli.exclude) |->
                                        RegexNew(cli.exclude[i]).val]])

\* execute: the root walked and the root moved to
FromRoot(c) == IF c.mode = "Move" THEN c.source ELSE c.temporary
ToRoot(c)   == IF c.mode = "Move" THEN c.temporary ELSE c.source

-----------------------------------------------------------------------------
(* Initial trees: every tree of at most MaxNodes entries named from Names,   *)
(* with at most MaxOdd entries that are neither regular files nor readable   *)
(* directories.  A tree is a set of <<relative path, node>>.  A directory    *)
(* that cannot be listed is given no entries: the engine never sees them.    *)

Now0 == 3 * SecondsPerDay

\* modification times: two days old and of today
Mtimes == {Now0 - 2 * SecondsPerDay, Now0 - 1}

LeafNodes(rel) ==
    {FileNode(m, PathCode(rel)) : m \in Mtimes}
        \cup {SymlinkNode, OtherNode, DirNode(TRUE), DirNode(FALSE)}

IsOdd(node) == node.kind \in {"symlink", "other"} \/ (node.kind = "dir" /\ ~node.readable)

RECURSIVE TreesAt(_, _), Forests(_, _)

\* the subtrees rooted at rel that have exactly k entries
TreesAt(rel, k) ==
    IF k = 0 THEN {{}}
    ELSE IF k = 1 THEN {{<<rel, n>>} : n \in LeafNodes(rel)}
    ELSE {{<<rel, DirNode(TRUE)>>} \cup F : F \in Forests(rel, k - 1)}

\* the sets of subtrees beneath rel that have exactly k entries together
Forests(rel, k) ==
    UNION {{A \cup B : A \in TreesAt(rel \o <<"a">>, i),
                           B \in TreesAt(rel \o <<"b">>, k - i)} : i \in 0..k}

InitForests ==
    {F \in UNION {Forests(<<>>, k) : k \in 0..MaxNodes} :
        Cardinality({e \in F : IsOdd(e[2])}) <= MaxOdd}

\* what the destination root holds before the first run
DestForests ==
    {{}, {<<(<<"a">>), FileNode(Now0 - 1, 100)>>}, {<<(<<"a">>), DirNode(TRUE)>>}}

\* the filesystem holding forest F under root from and forest G under root to
MakeFs(from, F, to, G) ==
    LET paths == {from, to} \cup {Join(from, e[1]) : e \in F} \cup {Join(to, e[1]) : e \in G}
    IN [q \in paths |->
          IF q \in {from, to} THEN DirNode(TRUE)
          ELSE IF IsPrefix(from, q)
               THEN (CHOOSE e \in F : Join(from, e[1]) = q)[2]
               ELSE (CHOOSE e \in G : Join(to, e[1]) = q)[2]]

DayStrings == {<<"+", "1">>, <<"-", "1">>, <<"0">>}

ExcludeChoices == {<<>>, <<EndsWith("b")>>, <<Contains("a")>>}

Clis ==
    [source: {SourceRoot}, temporary: {TemporaryRoot}, days: DayStrings,
     dry_run: BOOLEAN, mode: {"Move", "Restore"}, exclude: ExcludeChoices]

\* the order in which read_dir enumerates: by name
RECURSIVE SortPaths(_)
SortPaths(S) ==
    IF S = {} THEN <<>>
    ELSE LET first == CHOOSE x \in S : \A y \in S : PathCode(x) <= PathCode(y)
         IN <<first>> \o SortPaths(S \ {first})

\* WorkItems made from everything beneath dir, at whatever depth
WorkItems_deep(f, dir, rel) ==
    LET paths == SortPaths(Subtree(f, dir) \ {dir})
    IN [i \in 1..Len(paths) |-> <<paths[i], rel \o Below(dir, paths[i])>>]

\* WorkItems with every entry of dir twice
WorkItems_twice(f, dir, rel) ==
    LET paths == SortPaths(Entries(f, dir)) \o SortPaths(Entries(f, dir))
    IN [i \in 1..Len(paths) |-> <<paths[i], rel \o <<Last(paths[i])>> >>]

\* the WorkItems made from the entries of dir, whose relative path is rel:
\* the loops of initialize_queue and of process_directory_node
WorkItems(f, dir, rel) ==
    LET paths == SortPaths(Entries(f, dir))
    IN [i \in 1..Len(paths) |-> <<paths[i], rel \o <<Last(paths[i])>> >>]

-----------------------------------------------------------------------------
(* The engine *)

\* What one step of a worker did: the filesystem it leaves, the io::Result it
\* is about to return ("Ok" or "Err"), the children it returns, whether a
\* stats update on `path` is still to come, and whether a rename took place.
NoAction(f) ==
    [fs |-> f, res |-> "Ok", children |-> <<>>, pending |-> FALSE,
     path |-> <<>>, is_dir |-> FALSE, renamed |-> FALSE]

Failed(f) == [NoAction(f) EXCEPT !.res = "Err"]

\* a dry run that prepares the destination before it reports
handle_dry_run_preparing(f, src, dest, is_dir) ==
    [fs |-> create_parent_directories(f, dest), res |-> "Ok", children |-> <<>>,
     pending |-> TRUE, path |-> src, is_dir |-> is_dir, renamed |-> FALSE]

\* a dry run that counts files only
handle_dry_run_files_only(f, src, dest, is_dir) ==
    [NoAction(f) EXCEPT !.pending = ~is_dir, !.path = src, !.is_dir = is_dir]

\* handle_dry_run up to the call of update_stats, which reads the source
handle_dry_run(f, src, dest, is_dir) ==
    IF ~CanStat(f, src) THEN NoAction(f)
    ELSE [NoAction(f) EXCEPT !.pending = TRUE, !.path = src, !.is_dir = is_dir]

\* handle_move up to the call of update_stats, which reads the destination
handle_move(f, refused, src, dest, is_dir) ==
    IF ~create_parent_directories_ok(f, dest) THEN Failed(f)
    ELSE LET g == create_parent_directories(f, dest)
         IN IF ~RenameOk(g, refused, src, dest) THEN Failed(g)
            ELSE IF ~CanStat(Rename(g, src, dest), dest)
                 THEN [NoAction(Rename(g, src, dest)) EXCEPT !.renamed = TRUE]
            ELSE [NoAction(Rename(g, src, dest)) EXCEPT
                     !.pending = TRUE, !.path = dest, !.is_dir = is_dir,
                     !.renamed = TRUE]

move_entry(c, f, refused, src, dest, is_dir) ==
    IF c.dry_run
    THEN handle_dry_run(f, src, dest, is_dir)
    ELSE handle_move(f, refused, src, dest, is_dir)

\* process_directory_node that relocates every directory as a unit
process_directory_node_always_moving(c, t, f, refused, current_src, rel_path, to) ==
    move_entry(c, f, refused, current_src, Join(to, rel_path), TRUE)

\* process_directory_node that never relocates a directory as a unit
process_directory_node_descending(c, t, f, refused, current_src, rel_path, to) ==
    [NoAction(f) EXCEPT
        !.children = IF CanList(f, current_src)
                     THEN WorkItems(f, current_src, rel_path)
                     ELSE <<>>]

\* process_directory_node that enqueues the children of the directory it moved
process_directory_node_moving_and_descending(c, t, f, refused, current_src, rel_path, to) ==
    IF is_directory_matching(c, t, f, current_src)
    THEN [move_entry(c, f, refused, current_src, Join(to, rel_path), TRUE) EXCEPT
             !.children = WorkItems(f, current_src, rel_path)]
    ELSE [NoAction(f) EXCEPT
             !.children = IF CanList(f, current_src)
                          THEN WorkItems(f, current_src, rel_path)
                          ELSE <<>>]

\* process_directory_node that has an empty directory not qualify
process_directory_node_keeping_empty(c, t, f, refused, current_src, rel_path, to) ==
    IF is_directory_matching(c, t, f, current_src) /\ Entries(f, current_src) # {}
    THEN move_entry(c, f, refused, current_src, Join(to, rel_path), TRUE)
    ELSE [NoAction(f) EXCEPT
             !.children = IF CanList(f, current_src)
                          THEN WorkItems(f, current_src, rel_path)
                          ELSE <<>>]

process_directory_node(c, t, f, refused, current_src, rel_path, to) ==
    IF is_directory_matching(c, t, f, current_src)
    THEN move_entry(c, f, refused, current_src, Join(to, rel_path), TRUE)
    ELSE [NoAction(f) EXCEPT
             !.children = IF CanList(f, current_src)
                          THEN WorkItems(f, current_src, rel_path)
                          ELSE <<>>]

\* process_file_node relocating the files that do not match
process_file_node_negated(c, t, f, refused, current_src, rel_path, to) ==
    IF ~is_file_matching(c, t, f[current_src])
    THEN move_entry(c, f, refused, current_src, Join(to, rel_path), FALSE)
    ELSE NoAction(f)

\* process_file_node moving every file to the top of the destination
process_file_node_flattening(c, t, f, refused, current_src, rel_path, to) ==
    IF is_file_matching(c, t, f[current_src])
    THEN move_entry(c, f, refused, current_src, Join(to, <<Last(rel_path)>>), FALSE)
    ELSE NoAction(f)

process_file_node(c, t, f, refused, current_src, rel_path, to) ==
    IF is_file_matching(c, t, f[current_src])
    THEN move_entry(c, f, refused, current_src, Join(to, rel_path), FALSE)
    ELSE NoAction(f)

\* process_node without its exclusion check
process_node_without_exclusion(c, t, f, refused, current_src, rel_path, to) ==
    IF ~CanStat(f, current_src) THEN NoAction(f)
    ELSE IF f[current_src].kind = "symlink" THEN NoAction(f)
    ELSE IF f[current_src].kind = "dir"
         THEN process_directory_node(c, t, f, refused, current_src, rel_path, to)
    ELSE IF f[current_src].kind = "file"
         THEN process_file_node(c, t, f, refused, current_src, rel_path, to)
    ELSE NoAction(f)

\* process_node taking a symlink for the file it points to
process_node_following_links(c, t, f, refused, current_src, rel_path, to) ==
    IF is_excluded(c, current_src) THEN NoAction(f)
    ELSE IF ~CanStat(f, current_src) THEN NoAction(f)
    ELSE IF f[current_src].kind = "dir"
         THEN process_directory_node(c, t, f, refused, current_src, rel_path, to)
    ELSE IF f[current_src].kind \in {"file", "symlink"}
         THEN process_file_node(c, t, f, refused, current_src, rel_path, to)
    ELSE NoAction(f)

\* process_node following a symlink that points to the directory it is in
process_node_entering_links(c, t, f, refused, current_src, rel_path, to) ==
    IF is_excluded(c, current_src) THEN NoAction(f)
    ELSE IF ~CanStat(f, current_src) THEN NoAction(f)
    ELSE IF f[current_src].kind = "symlink"
         THEN [NoAction(f) EXCEPT
                  !.children = WorkItems(f, Parent(current_src), Parent(rel_path))]
    ELSE IF f[current_src].kind = "dir"
         THEN process_directory_node(c, t, f, refused, current_src, rel_path, to)
    ELSE IF f[current_src].kind = "file"
         THEN process_file_node(c, t, f, refused, current_src, rel_path, to)
    ELSE NoAction(f)

\* process_node taking whatever is no directory for a regular file
process_node_else_file(c, t, f, refused, current_src, rel_path, to) ==
    IF is_excluded(c, current_src) THEN NoAction(f)
    ELSE IF ~CanStat(f, current_src) THEN NoAction(f)
    ELSE IF f[current_src].kind = "symlink" THEN NoAction(f)
    ELSE IF f[current_src].kind = "dir"
         THEN process_directory_node(c, t, f, refused, current_src, rel_path, to)
    ELSE process_file_node(c, t, f, refused, current_src, rel_path, to)

\* process_node returning the entries of an excluded directory as children
process_node_listing_excluded(c, t, f, refused, current_src, rel_path, to) ==
    IF is_excluded(c, current_src)
    THEN [NoAction(f) EXCEPT
             !.children = IF CanList(f, current_src)
                          THEN WorkItems(f, current_src, rel_path)
                          ELSE <<>>]
    ELSE IF ~CanStat(f, current_src) THEN NoAction(f)
    ELSE IF f[current_src].kind = "symlink" THEN NoAction(f)
    ELSE IF f[current_src].kind = "dir"
         THEN process_directory_node(c, t, f, refused, current_src, rel_path, to)
    ELSE IF f[current_src].kind = "file"
         THEN process_file_node(c, t, f, refused, current_src, rel_path, to)
    ELSE NoAction(f)

process_node(c, t, f, refused, current_src, rel_path, to) ==
    IF is_excluded(c, current_src) THEN NoAction(f)
    ELSE IF ~CanStat(f, current_src) THEN NoAction(f)
    ELSE IF f[current_src].kind = "symlink" THEN NoAction(f)
    ELSE IF f[current_src].kind = "dir"
         THEN process_directory_node(c, t, f, refused, current_src, rel_path, to)
    ELSE IF f[current_src].kind = "file"
         THEN process_file_node(c, t, f, refused, current_src, rel_path, to)
    ELSE NoAction(f)

\* update_stats adding the length of the directory entry itself
update_stats_with_entry(st, f, path, is_dir) ==
    IF is_dir
    THEN LET dir_size == calculate_directory_size(f, path)
         IN IF dir_size = SizeErr
            THEN [stats |-> [st EXCEPT !.dirs_moved = @ + 1], res |-> "Err"]
            ELSE [stats |-> [st EXCEPT !.dirs_moved = @ + 1,
                                       !.total_size = @ + dir_size + f[path].len],
                  res |-> "Ok"]
    ELSE [stats |-> [st EXCEPT !.files_moved = @ + 1, !.total_size = @ + f[path].len],
          res |-> "Ok"]

\* update_stats: the counters it leaves and the io::Result it returns
update_stats(st, f, path, is_dir) ==
    IF is_dir
    THEN LET dir_size == calculate_directory_size(f, path)
         IN IF dir_size = SizeErr
            THEN [stats |-> [st EXCEPT !.dirs_moved = @ + 1], res |-> "Err"]
            ELSE [stats |-> [st EXCEPT !.dirs_moved = @ + 1, !.total_size = @ + dir_size],
                  res |-> "Ok"]
    ELSE [stats |-> [st EXCEPT !.files_moved = @ + 1, !.total_size = @ + f[path].len],
          res |-> "Ok"]

Idle == [pc |-> "start", res |-> "none", children |-> <<>>, path |-> <<>>, is_dir |-> FALSE]

\* the engine built by FileMover::new(cli) on a filesystem that holds forest
\* F under the root it walks and G under the other root, with the renames
\* of the paths in refused failing
InitWith(cli, F, G, refused) ==
    /\ new(cli).ok
    /\ cfg = new(cli).val
    /\ fs = MakeFs(FromRoot(cfg), F, ToRoot(cfg), G)
    /\ failRename = {Join(FromRoot(cfg), rel) : rel \in refused}
    /\ now = Now0
    /\ stats = ZeroStats
    /\ pc = "idle"
    /\ queue = <<>>
    /\ current_level = <<>>
    /\ workers = <<>>
    /\ result = "none"
    /\ runs = 0
    /\ hist = [cli |-> cli, fs0 |-> fs, start |-> <<>>, level |-> 0, visited |-> {},
               moved |-> {}, failed |-> {}, engines |-> 1, prev |-> <<>>,
               items |-> {}]

\* every rename the system is asked for is possible, the destination is empty
Init == \E cli \in Clis, F \in InitForests : InitWith(cli, F, {}, {})

\* a live Move into a destination that may hold an entry "a" already, with
\* the system possibly refusing to rename the source's entry "a"
InitFaults ==
    \E cli \in {c \in Clis : c.mode = "Move" /\ ~c.dry_run},
       F \in InitForests, G \in DestForests, refused \in {{}, {<<"a">>}} :
          InitWith(cli, F, G, refused)

\* execute putting the counters at zero before it walks
Execute_resetting ==
    /\ pc \in {"idle", "done"}
    /\ runs < MaxRuns
    /\ runs' = runs + 1
    /\ queue' = IF CanList(fs, FromRoot(cfg))
                THEN WorkItems(fs, FromRoot(cfg), <<>>)
                ELSE <<>>
    /\ pc' = "loop"
    /\ result' = "none"
    /\ stats' = ZeroStats
    /\ hist' = [hist EXCEPT !.level = 0, !.start = Append(@, fs)]
    /\ UNCHANGED <<fs, now, failRename, cfg, current_level, workers>>

\* execute -> process_files -> bfs_and_process, up to the loop: initialize_queue
Execute ==
    /\ pc \in {"idle", "done"}
    /\ runs < MaxRuns
    /\ runs' = runs + 1
    /\ queue' = IF CanList(fs, FromRoot(cfg))
                THEN WorkItems(fs, FromRoot(cfg), <<>>)
                ELSE <<>>
    /\ pc' = "loop"
    /\ result' = "none"
    /\ hist' = [hist EXCEPT !.level = 0, !.start = Append(@, fs)]
    /\ UNCHANGED <<fs, now, failRename, cfg, stats, current_level, workers>>

\* the loop head with a non-empty queue: get_current_level, and
\* process_current_level hands one task per WorkItem to the pool
GetCurrentLevel ==
    /\ pc = "loop"
    /\ queue # <<>>
    /\ current_level' = queue
    /\ queue' = <<>>
    /\ workers' = [i \in 1..Len(queue) |-> Idle]
    /\ pc' = "level"
    \* the level's number; a tree of at most MaxNodes entries has no more levels
    /\ LET level == IF hist.level <= MaxNodes THEN hist.level + 1 ELSE hist.level
       IN hist' = [hist EXCEPT
              !.level = level,
              !.items = @ \cup {[path |-> queue[i][1], level |-> level, run |-> runs] :
                                   i \in 1..Len(queue)}]
    /\ UNCHANGED <<fs, now, failRename, cfg, stats, result, runs>>

\* a worker that drops its WorkItem when another worker has failed already
ProcessNode_cancelled_after_failure(i) ==
    /\ pc = "level"
    /\ workers[i].pc = "start"
    /\ LET src == current_level[i][1]
           rel == current_level[i][2]
           e   == IF \E j \in 1..Len(workers) : workers[j].res = "Err"
                  THEN NoAction(fs)
                  ELSE process_node(cfg, now, fs, failRename, src, rel, ToRoot(cfg))
       IN /\ fs' = e.fs
          /\ workers' = [workers EXCEPT ![i] =
                 [pc |-> IF e.pending THEN "stats" ELSE "done", res |-> e.res,
                  children |-> e.children, path |-> e.path, is_dir |-> e.is_dir]]
          /\ hist' = [hist EXCEPT
                 !.visited = IF \E j \in 1..Len(workers) : workers[j].res = "Err"
                             THEN @
                             ELSE @ \cup {[path |-> src, level |-> hist.level, run |-> runs]},
                 !.moved = IF e.pending
                           THEN @ \cup {[src |-> src, rel |-> rel, is_dir |-> e.is_dir,
                                         live |-> e.renamed, run |-> runs]}
                           ELSE @,
                 !.failed = IF e.res = "Err"
                            THEN @ \cup {[path |-> src, level |-> hist.level, run |-> runs]}
                            ELSE @]
    /\ UNCHANGED <<now, failRename, cfg, stats, pc, queue, current_level, result, runs>>

\* a worker of the pool runs process_node on WorkItem i, up to the stats update
ProcessNode(i) ==
    /\ pc = "level"
    /\ workers[i].pc = "start"
    /\ LET src == current_level[i][1]
           rel == current_level[i][2]
           e   == process_node(cfg, now, fs, failRename, src, rel, ToRoot(cfg))
       IN /\ fs' = e.fs
          /\ workers' = [workers EXCEPT ![i] =
                 [pc |-> IF e.pending THEN "stats" ELSE "done", res |-> e.res,
                  children |-> e.children, path |-> e.path, is_dir |-> e.is_dir]]
          /\ hist' = [hist EXCEPT
                 !.visited = @ \cup {[path |-> src, level |-> hist.level, run |-> runs]},
                 !.moved = IF e.pending
                           THEN @ \cup {[src |-> src, rel |-> rel, is_dir |-> e.is_dir,
                                         live |-> e.renamed, run |-> runs]}
                           ELSE @,
                 !.failed = IF e.res = "Err"
                            THEN @ \cup {[path |-> src, level |-> hist.level, run |-> runs]}
                            ELSE @]
    /\ UNCHANGED <<now, failRename, cfg, stats, pc, queue, current_level, result, runs>>

\* update_stats reading the counters and writing them back in two steps: of
\* two workers that have both read, the one that writes first is overwritten
UpdateStats_not_atomic(i) ==
    /\ pc = "level"
    /\ workers[i].pc = "stats"
    /\ LET u == update_stats(stats, fs, workers[i].path, workers[i].is_dir)
       IN /\ stats' = IF \E j \in 1..Len(workers) : j # i /\ workers[j].pc = "stats"
                      THEN stats
                      ELSE u.stats
          /\ workers' = [workers EXCEPT ![i].pc = "done", ![i].res = u.res]
    /\ UNCHANGED <<fs, now, failRename, cfg, pc, queue, current_level, result, runs, hist>>

\* the same worker ends move_entry with update_stats and returns
UpdateStats(i) ==
    /\ pc = "level"
    /\ workers[i].pc = "stats"
    /\ LET u == update_stats(stats, fs, workers[i].path, workers[i].is_dir)
       IN /\ stats' = u.stats
          /\ workers' = [workers EXCEPT ![i].pc = "done", ![i].res = u.res]
    /\ UNCHANGED <<fs, now, failRename, cfg, pc, queue, current_level, result, runs, hist>>

\* the loop over the results going on past an error
CollectResults_ignoring_errors ==
    /\ pc = "level"
    /\ \A i \in 1..Len(workers) : workers[i].pc = "done"
    /\ LET RECURSIVE Extend(_)
           Extend(k) == IF k = 0 THEN queue ELSE Extend(k - 1) \o workers[k].children
       IN queue' = Extend(Len(workers))
    /\ pc' = "loop"
    /\ UNCHANGED <<fs, now, failRename, cfg, stats, current_level, workers, result, runs, hist>>

\* the loop over the results starting as soon as one worker is done
CollectResults_without_waiting ==
    /\ pc = "level"
    /\ \E i \in 1..Len(workers) : workers[i].pc = "done"
    /\ LET done == {i \in 1..Len(workers) : workers[i].pc = "done"}
           bad == {i \in done : workers[i].res = "Err"}
           RECURSIVE Extend(_)
           Extend(k) == IF k = 0 THEN queue
                        ELSE IF k \in done /\ \A j \in bad : k < j
                             THEN Extend(k - 1) \o workers[k].children
                             ELSE Extend(k - 1)
       IN /\ queue' = Extend(Len(workers))
          /\ pc' = IF bad = {} THEN "loop" ELSE "done"
          /\ result' = IF bad = {} THEN result ELSE "Err"
    /\ UNCHANGED <<fs, now, failRename, cfg, stats, current_level, workers, runs, hist>>

\* collect() has every result of the level; the loop over them returns the
\* first error, and extends the queue with the children that precede it
CollectResults ==
    /\ pc = "level"
    /\ \A i \in 1..Len(workers) : workers[i].pc = "done"
    /\ LET bad == {i \in 1..Len(workers) : workers[i].res = "Err"}
           upto == IF bad = {} THEN Len(workers)
                   ELSE (CHOOSE i \in bad : \A j \in bad : i <= j) - 1
           RECURSIVE Extend(_)
           Extend(k) == IF k = 0 THEN queue ELSE Extend(k - 1) \o workers[k].children
       IN /\ queue' = Extend(upto)
          /\ pc' = IF bad = {} THEN "loop" ELSE "done"
          /\ result' = IF bad = {} THEN result ELSE "Err"
    /\ UNCHANGED <<fs, now, failRename, cfg, stats, current_level, workers, runs, hist>>

\* the loop ends on an empty queue: bfs_and_process and execute return Ok(())
Return ==
    /\ pc = "loop"
    /\ queue = <<>>
    /\ pc' = "done"
    /\ result' = "Ok"
    /\ UNCHANGED <<fs, now, failRename, cfg, stats, queue, current_level, workers, runs, hist>>

\* the caller drops the engine after a run and builds another with
\* FileMover::new(cli) on the filesystem as it is
NewEngine(cli) ==
    /\ pc = "done"
    /\ hist.engines < MaxEngines
    /\ new(cli).ok
    /\ cfg' = new(cli).val
    /\ stats' = ZeroStats
    /\ pc' = "idle"
    /\ queue' = <<>>
    /\ current_level' = <<>>
    /\ workers' = <<>>
    /\ result' = "none"
    /\ runs' = 0
    /\ hist' = [hist EXCEPT !.cli = cli, !.start = <<>>, !.level = 0, !.visited = {},
                            !.moved = {}, !.failed = {}, !.items = {}, !.engines = @ + 1,
                            !.prev = Append(@, [cfg |-> cfg, stats |-> stats,
                                                result |-> result, runs |-> runs,
                                                start |-> hist.start, end |-> fs])]
    /\ UNCHANGED <<fs, now, failRename>>

Next ==
    \/ Execute
    \/ GetCurrentLevel
    \/ \E i \in 1..Len(workers) : ProcessNode(i)
    \/ \E i \in 1..Len(workers) : UpdateStats(i)
    \/ CollectResults
    \/ Return

Spec == Init /\ [][Next]_vars

SpecFaults == InitFaults /\ [][Next]_vars

\* one dry run, and then a live engine of the same configuration on the
\* same tree, the destination possibly holding an entry "a" already
InitDry ==
    \E cli \in {c \in Clis : c.mode = "Move" /\ c.dry_run /\ c.exclude # <<Contains("a")>>},
       F \in InitForests, G \in DestForests : InitWith(cli, F, G, {})

NextDryThenLive ==
    \/ Next
    \/ cfg.dry_run /\ runs = 1 /\ NewEngine([hist.cli EXCEPT !.dry_run = FALSE])

SpecDryThenLive == InitDry /\ [][NextDryThenLive]_vars

\* A directory "a" holding a regular file and a sub-directory "b" with one
\* entry of any kind: the smallest tree in which a directory that does not
\* qualify has a sub-directory that may
NestedForests ==
    {{<<(<<"a">>), DirNode(TRUE)>>, <<(<<"a", "a">>), f>>,
      <<(<<"a", "b">>), DirNode(TRUE)>>, <<(<<"a", "b", "a">>), n>>} :
        f \in {FileNode(m, 1) : m \in Mtimes}, n \in LeafNodes(<<"a", "b", "a">>)}

InitNested == \E cli \in Clis, F \in NestedForests : InitWith(cli, F, {}, {})

SpecNested == InitNested /\ [][Next]_vars

\* A live Move of a tree three levels deep, files at each level, into a
\* destination that may hold an entry "a" already, the system possibly
\* refusing to rename the file a/a of the second level
FaultForests ==
    {{<<(<<"b">>), FileNode(m[1], PathCode(<<"b">>))>>,
      <<(<<"a">>), DirNode(TRUE)>>,
      <<(<<"a", "a">>), FileNode(m[2], PathCode(<<"a", "a">>))>>,
      <<(<<"a", "b">>), DirNode(TRUE)>>,
      <<(<<"a", "b", "a">>), FileNode(m[3], PathCode(<<"a", "b", "a">>))>>,
      <<(<<"a", "b", "b">>), FileNode(m[4], PathCode(<<"a", "b", "b">>))>>} :
        m \in [1..4 -> Mtimes]}

InitDeepFaults ==
    \E cli \in {c \in Clis : c.mode = "Move" /\ ~c.dry_run},
       F \in FaultForests, G \in DestForests, refused \in {{}, {<<"a", "a">>}} :
          InitWith(cli, F, G, refused)

SpecDeepFaults == InitDeepFaults /\ [][Next]_vars

\* what a directory's permissions allow: everything, no listing, or listing
\* without access to the entries
DirKinds == {DirNode(TRUE), DirNode(FALSE), DirNodeNoSearch}

\* A directory "a" holding a directory "a" with one entry of any kind, each
\* of the two directories of any of the three kinds, beside an old file "b"
ErrorForests ==
    {{<<(<<"a">>), d1>>, <<(<<"a", "a">>), d2>>, <<(<<"a", "a", "a">>), n>>,
      <<(<<"b">>), FileNode(Now0 - 2 * SecondsPerDay, PathCode(<<"b">>))>>} :
        d1 \in DirKinds, d2 \in DirKinds, n \in LeafNodes(<<"a", "a", "a">>)}

\* Dry runs of a Move over every tree: each visit of a directory applies
\* is_directory_matching to it and nothing changes the tree
InitMatch ==
    \E cli \in {c \in Clis : c.mode = "Move" /\ c.dry_run},
       F \in InitForests \cup ErrorForests :
          InitWith(cli, F, {}, {})

SpecMatch == InitMatch /\ [][Next]_vars

\* Runs in which nothing refuses a rename and the destination is empty, over
\* trees with directories that cannot be listed or searched, the root that is
\* walked being of any of the three kinds itself
InitErrors ==
    \E cli \in Clis, F \in ErrorForests, root \in DirKinds :
        /\ cfg = new(cli).val
        /\ fs = [MakeFs(FromRoot(cfg), F, ToRoot(cfg), {}) EXCEPT ![FromRoot(cfg)] = root]
        /\ failRename = {}
        /\ now = Now0
        /\ stats = ZeroStats
        /\ pc = "idle"
        /\ queue = <<>>
        /\ current_level = <<>>
        /\ workers = <<>>
        /\ result = "none"
        /\ runs = 0
        /\ hist = [cli |-> cli, fs0 |-> fs, start |-> <<>>, level |-> 0, visited |-> {},
                   moved |-> {}, failed |-> {}, engines |-> 1, prev |-> <<>>,
                   items |-> {}]

SpecErrors == InitErrors /\ [][Next]_vars

\* The scheduling: the coordinating thread goes on, and the pool runs every
\* task it was handed to its end.  When execute() is called is up to the
\* caller.
Fairness ==
    /\ WF_vars(GetCurrentLevel)
    /\ WF_vars(\E i \in 1..Len(workers) : ProcessNode(i))
    /\ WF_vars(\E i \in 1..Len(workers) : UpdateStats(i))
    /\ WF_vars(CollectResults)
    /\ WF_vars(Return)

\* A directory "a" holding a symlink and one more entry of any kind, beside
\* an entry "b" that is an old file, a symlink or an empty directory
LinkForests ==
    {{<<(<<"a">>), DirNode(TRUE)>>, <<(<<"a", "a">>), SymlinkNode>>,
      <<(<<"a", "b">>), n1>>, <<(<<"b">>), n2>>} :
        n1 \in LeafNodes(<<"a", "b">>),
        n2 \in {FileNode(Now0 - 2 * SecondsPerDay, PathCode(<<"b">>)), SymlinkNode,
                DirNode(TRUE)}}

InitLinks ==
    \E cli \in {c \in Clis : c.mode = "Move"}, F \in LinkForests : InitWith(cli, F, {}, {})

SpecLive == InitLinks /\ [][Next]_vars /\ Fairness

-----------------------------------------------------------------------------
(* Construction.  The caller holds a Cli and calls FileMover::new on it,     *)
(* which returns the engine or an error; only a built engine executes.  The  *)
(* day string is any string of at most MaxDayLen characters over a sign, two *)
(* digits and a letter; the roots may be one and the same directory.         *)

DayChars == {"+", "-", "0", "1", "x"}

RECURSIVE StringsOfLen(_)
StringsOfLen(k) ==
    IF k = 0 THEN {<<>>}
    ELSE {<<ch>> \o s : ch \in DayChars, s \in StringsOfLen(k - 1)}

AnyDayStrings == UNION {StringsOfLen(k) : k \in 0..MaxDayLen}

NewClis ==
    [source: {SourceRoot}, temporary: {TemporaryRoot, SourceRoot}, days: AnyDayStrings,
     dry_run: BOOLEAN, mode: {"Move", "Restore"},
     exclude: {<<>>, <<EndsWith("b")>>, <<BadPattern>>, <<EndsWith("b"), BadPattern>>}]

NewForests ==
    {{}, {<<(<<"a">>), FileNode(Now0 - 2 * SecondsPerDay, 1)>>},
         {<<(<<"a">>), DirNode(TRUE)>>, <<(<<"a", "b">>), FileNode(Now0 - 1, 5)>>}}

\* no engine yet
NoEngine == [built |-> FALSE]

InitNew ==
    \E cli \in NewClis, F \in NewForests :
        /\ cfg = NoEngine
        /\ fs = MakeFs(FromRoot(cli), F, ToRoot(cli), {})
        /\ failRename = {}
        /\ now = Now0
        /\ stats = ZeroStats
        /\ pc = "unbuilt"
        /\ queue = <<>>
        /\ current_level = <<>>
        /\ workers = <<>>
        /\ result = "none"
        /\ runs = 0
        /\ hist = [cli |-> cli, fs0 |-> fs, start |-> <<>>, level |-> 0, visited |-> {},
                   moved |-> {}, failed |-> {}, engines |-> 0, prev |-> <<>>,
                   items |-> {}]

\* FileMover::new(&cli): the engine, or Err and no engine
New ==
    /\ pc = "unbuilt"
    /\ LET r == new(hist.cli)
       IN IF r.ok
          THEN cfg' = r.val /\ pc' = "idle" /\ hist' = [hist EXCEPT !.engines = 1]
          ELSE cfg' = cfg /\ pc' = "failed" /\ hist' = hist
    /\ UNCHANGED <<fs, now, failRename, stats, queue, current_level, workers, result, runs>>

NextNew ==
    \/ New
    \/ Next

SpecNew == InitNew /\ [][NextNew]_vars

-----------------------------------------------------------------------------
(* Roots that are not apart.  The temporary root may be the directory "a" of *)
(* the source root: a Move then walks a root that holds its destination, and *)
(* a Restore walks a root that lies inside its destination.  FileMover::new  *)
(* takes any two paths.                                                      *)

InsideRoot == Join(SourceRoot, <<"a">>)

RootClis ==
    [source: {SourceRoot}, temporary: {TemporaryRoot, InsideRoot}, days: DayStrings,
     dry_run: {FALSE}, mode: {"Move", "Restore"}, exclude: {<<>>, <<EndsWith("b")>>}]

\* the directory "a" holding a directory "a" with one file, beside a file "b"
InsideForests ==
    {{<<(<<"a">>), DirNode(TRUE)>>, <<(<<"a", "a">>), DirNode(TRUE)>>,
      <<(<<"a", "a", "a">>), FileNode(m[1], PathCode(<<"a", "a", "a">>))>>,
      <<(<<"b">>), FileNode(m[2], PathCode(<<"b">>))>>} : m \in [1..2 -> Mtimes]}

InitRoots ==
    \E cli \in RootClis, F \in InitForests \cup InsideForests : InitWith(cli, F, {}, {})

SpecRoots == InitRoots /\ [][Next]_vars

\* a live Move, and after its first run a second engine built from the same
\* Cli on the tree the first one left
InitAgain ==
    \E cli \in {c \in RootClis : c.mode = "Move"}, F \in InitForests \cup InsideForests :
        InitWith(cli, F, {}, {})

NextAgain ==
    \/ Next
    \/ runs = 1 /\ NewEngine(hist.cli)

SpecAgain == InitAgain /\ [][NextAgain]_vars

\* a live Move without exclusions into an empty temporary root, and after
\* its first run an engine built from the same Cli in Restore mode
InitRoundTrip ==
    \E cli \in {c \in Clis : c.mode = "Move" /\ ~c.dry_run /\ c.exclude = <<>>},
       F \in InitForests : InitWith(cli, F, {}, {})

NextRoundTrip ==
    \/ Next
    \/ runs = 1 /\ hist.cli.mode = "Move" /\ NewEngine([hist.cli EXCEPT !.mode = "Restore"])

SpecRoundTrip == InitRoundTrip /\ [][NextRoundTrip]_vars

-----------------------------------------------------------------------------
(* The time predicate alone: one regular file "a" under the source root, of  *)
(* every age from the future (by a second, by MaxDays days) to MaxDays + 1   *)
(* days at both ends of each day, against every comparison with a day count  *)
(* of at most MaxDays.                                                       *)

TimeMtimes ==
    {Now0 + 1, Now0 + MaxDays * SecondsPerDay}
        \cup {Now0 - (d * SecondsPerDay + r) : d \in 0..(MaxDays + 1),
                                               r \in {0, SecondsPerDay - 1}}

TimeDayStrings ==
    {sign \o <<Digits[n + 1]>> : sign \in {<<>>, <<"+">>, <<"-">>}, n \in 0..MaxDays}

InitTime ==
    \E cli \in [source: {SourceRoot}, temporary: {TemporaryRoot}, days: TimeDayStrings,
                dry_run: BOOLEAN, mode: {"Move"}, exclude: {<<>>}],
       m \in TimeMtimes :
          InitWith(cli, {<<(<<"a">>), FileNode(m, 1)>>}, {}, {})

SpecTime == InitTime /\ [][Next]_vars

-----------------------------------------------------------------------------
(* Vocabulary of the claims *)

\* the filesystem as it was when run r of the engine began
StartOf(r) == hist.start[r]

\* the node that a visit v found
Visited(v) == StartOf(v.run)[v.path]

\* the visit v ended in a relocation of its own path (live: a rename that
\* succeeded; dry run: the relocation reported)
RelocatedAt(v) == \E m \in hist.moved : m.src = v.path /\ m.run = v.run

\* a file's age in whole days, for a modification time not in the future
WholeDays(modified) ==
    CHOOSE a \in 0..(MaxDays + 2) :
        a * SecondsPerDay <= now - modified /\ now - modified < (a + 1) * SecondsPerDay

-----------------------------------------------------------------------------
(* C1: a visited regular file of age a whole days is relocated iff          *)
(* a = n under ExactDays(n), a > n under OlderThanDays(n), a < n under       *)
(* NewerThanDays(n); a file exactly n days old matches neither               *)
(* OlderThanDays(n) nor NewerThanDays(n).                                    *)
C1_TimePredicate ==
    \A v \in hist.visited :
        (Visited(v).kind = "file" /\ Visited(v).modified <= now) =>
            LET a == WholeDays(Visited(v).modified)
                n == cfg.time_comparison.n
                tag == cfg.time_comparison.tag
            IN /\ tag = "Exact"    => (RelocatedAt(v) <=> a = n)
               /\ tag = "MoreThan" => (RelocatedAt(v) <=> a > n)
               /\ tag = "LessThan" => (RelocatedAt(v) <=> a < n)

\* a file exactly n > 0 days old was visited under OlderThanDays(n) and left alone
C1_Witness ==
    \E v \in hist.visited :
        /\ Visited(v).kind = "file" /\ Visited(v).modified <= now
        /\ cfg.time_comparison.tag = "MoreThan"
        /\ cfg.time_comparison.n > 0
        /\ WholeDays(Visited(v).modified) = cfg.time_comparison.n
        /\ ~RelocatedAt(v)
        /\ pc = "done"

\* where the relocation of source path p puts it
DestOf(p) == Join(ToRoot(cfg), Below(FromRoot(cfg), p))

\* the node that visit v found is now at the mirrored path and gone from its own
MovedTo(v) ==
    /\ ~Exists(fs, v.path)
    /\ Exists(fs, DestOf(v.path))
    /\ fs[DestOf(v.path)] = Visited(v)

\* the node that visit v found is still where it was
Stays(v) == Exists(fs, v.path) /\ fs[v.path] = Visited(v)

\* the relocation step of visit v returned an error
FailedAt(v) == v \in hist.failed

IndividualFiles == {m \in hist.moved : ~m.is_dir}
WholeDirectories == {m \in hist.moved : m.is_dir}

-----------------------------------------------------------------------------
(* C2 as stated: after a live Move run every visited, non-excluded regular  *)
(* file is at <destination>/<rel> iff its age satisfies the time predicate,  *)
(* stays at its source path otherwise, and files-relocated is the number of  *)
(* files relocated individually.                                             *)
C2_Original ==
    (pc = "done" /\ ~cfg.dry_run /\ cfg.mode = "Move") =>
        /\ \A v \in hist.visited :
              (Visited(v).kind = "file" /\ ~is_excluded(cfg, v.path)) =>
                  IF is_file_matching(cfg, now, Visited(v)) THEN MovedTo(v) ELSE Stays(v)
        /\ stats.files_moved = Cardinality(IndividualFiles)

(* C2, amended: after a live Move run every visited, non-excluded regular   *)
(* file is at <destination>/<rel> iff its age satisfies the time predicate   *)
(* and its relocation step (parent creation and rename) did not fail; it     *)
(* stays at its source path otherwise; files-relocated is the number of      *)
(* files relocated individually.                                             *)
C2_FileRelocation ==
    (pc = "done" /\ ~cfg.dry_run /\ cfg.mode = "Move") =>
        /\ \A v \in hist.visited :
              (Visited(v).kind = "file" /\ ~is_excluded(cfg, v.path)) =>
                  IF is_file_matching(cfg, now, Visited(v)) /\ ~FailedAt(v)
                  THEN MovedTo(v)
                  ELSE Stays(v)
        /\ stats.files_moved = Cardinality(IndividualFiles)

\* a live Move run at whose end one matching file is relocated and counted
\* and another one, whose rename failed, is still in the source
C2_Witness ==
    /\ pc = "done" /\ ~cfg.dry_run /\ cfg.mode = "Move"
    /\ stats.files_moved = 1
    /\ \E v, w \in hist.visited :
          /\ Visited(v).kind = "file" /\ Visited(w).kind = "file"
          /\ ~is_excluded(cfg, v.path) /\ ~is_excluded(cfg, w.path)
          /\ is_file_matching(cfg, now, Visited(v)) /\ MovedTo(v)
          /\ is_file_matching(cfg, now, Visited(w)) /\ FailedAt(w) /\ Stays(w)

\* the paths beneath the root the engine walks, as the engine found them
\* when it was built
Walked == {p \in DOMAIN hist.fs0 : IsStrictPrefix(FromRoot(cfg), p)}

\* some exclusion pattern matches the path's string
PathExcluded(p) ==
    \E i \in 1..Len(cfg.exclude_regex) : RegexIsMatch(cfg.exclude_regex[i], p)

\* the path is still what it was when the engine was built
Untouched(p) == Exists(fs, p) /\ fs[p] = hist.fs0[p]

\* p was relocated, on its own or inside a directory relocated as a unit
\* (in a dry run: reported as relocated)
Carried(p) == \E m \in hist.moved : IsPrefix(m.src, p)

-----------------------------------------------------------------------------
(* C3 as stated: after a successful live Restore every regular file under   *)
(* the temporary root that is not excluded (nor beneath an excluded or       *)
(* unreadable directory) is at the mirrored path under the source root and   *)
(* gone from the temporary root, whatever its age and the day string.        *)
C3_RestoreIgnoresDays ==
    (pc = "done" /\ result = "Ok" /\ cfg.mode = "Restore" /\ ~cfg.dry_run) =>
        \A p \in Walked :
            ( /\ hist.fs0[p].kind = "file"
              /\ \A q \in Prefixes(p) : ~PathExcluded(q)
              /\ \A q \in Prefixes(Parent(p)) : hist.fs0[q].readable ) =>
                /\ ~Exists(fs, p)
                /\ Exists(fs, DestOf(p))
                /\ fs[DestOf(p)] = hist.fs0[p]

-----------------------------------------------------------------------------
(* C4: with dry_run = true no execution changes the filesystem: the         *)
(* existing paths, every file's size and modification time, and the whole    *)
(* destination tree stay what they were before the first execution.          *)
C4_DryRunNoMutation == cfg.dry_run => fs = hist.fs0

\* two dry-run executions are over, each of which reported relocations
C4_Witness ==
    /\ cfg.dry_run /\ runs = 2 /\ pc = "done"
    /\ \E m \in hist.moved : m.run = 1 /\ m.is_dir
    /\ \E m \in hist.moved : m.run = 2 /\ ~m.is_dir

-----------------------------------------------------------------------------
(* C5: on the same tree and configuration, a live run in which every        *)
(* rename succeeds ends with the three counters of the dry run.              *)
C5_DryEqualsLive ==
    ( /\ hist.engines = 2 /\ pc = "done" /\ result = "Ok" /\ runs = 1
      /\ ~cfg.dry_run
      /\ hist.prev[1].cfg.dry_run /\ hist.prev[1].runs = 1 ) =>
        stats = hist.prev[1].stats

\* a successful live run after one dry run, having relocated a directory
\* as a unit and a file on its own
C5_Witness ==
    /\ hist.engines = 2 /\ pc = "done" /\ result = "Ok" /\ runs = 1
    /\ ~cfg.dry_run
    /\ hist.prev[1].cfg.dry_run /\ hist.prev[1].runs = 1
    /\ stats.dirs_moved = 1 /\ stats.files_moved = 1 /\ stats.total_size > 1

-----------------------------------------------------------------------------
-----------------------------------------------------------------------------
(* C7: a directory that is excluded, or that has an excluded entry at any   *)
(* depth beneath it, is never relocated as a unit, not even when every file  *)
(* beneath it satisfies the time predicate.                                  *)
Poisoned(d) == \E q \in Subtree(hist.fs0, d) : PathExcluded(q)

-----------------------------------------------------------------------------
(* C8 as stated: after a successful live Restore no file under the          *)
(* temporary root whose path matches an exclusion pattern is left there.     *)
C8_RestoreTakesExcluded ==
    (pc = "done" /\ result = "Ok" /\ cfg.mode = "Restore" /\ ~cfg.dry_run) =>
        \A p \in Walked :
            (Len(p) = 2 /\ hist.fs0[p].kind = "file" /\ PathExcluded(p)
                /\ is_file_matching(cfg, now, hist.fs0[p])) => ~Exists(fs, p)

-----------------------------------------------------------------------------
(* C9 as stated: after any execute() every symbolic link that existed under *)
(* the traversed root is still at its original path.                         *)
C9_Original ==
    pc = "done" => \A p \in Walked : hist.fs0[p].kind = "symlink" => Untouched(p)

\* the entry found at p is now at the mirrored path, inside a directory that
\* was renamed as a unit
WentWithDirectory(p) ==
    \E m \in hist.moved :
        /\ m.is_dir /\ m.live /\ IsStrictPrefix(m.src, p)
        /\ ~Exists(fs, p)
        /\ Exists(fs, DestOf(p)) /\ fs[DestOf(p)] = hist.fs0[p]

(* C9, amended: a symbolic link is never relocated on its own, at the root  *)
(* level or inside a directory: no relocation and no stats update is ever    *)
(* made for it; it leaves its original path only inside a directory above    *)
(* it that is relocated as a unit, and is then at the mirrored path.         *)
C9_SymlinkNeverRelocatedAlone ==
    \A p \in Walked :
        hist.fs0[p].kind = "symlink" =>
            /\ \A m \in hist.moved : m.src # p
            /\ Untouched(p) \/ WentWithDirectory(p)

\* a live run is over that visited a symlink, left it, and relocated a file
\* beside it
C9_Witness ==
    /\ pc = "done" /\ ~cfg.dry_run
    /\ \E v, w \in hist.visited :
          /\ Visited(v).kind = "symlink" /\ Untouched(v.path)
          /\ Parent(w.path) = Parent(v.path)
          /\ Visited(w).kind = "file" /\ MovedTo(w)

-----------------------------------------------------------------------------
(* C10 as stated: after any execute() every entry that is neither a regular *)
(* file, a directory nor a symlink is still at its original path.            *)
C10_Original ==
    pc = "done" => \A p \in Walked : hist.fs0[p].kind = "other" => Untouched(p)

(* C10, amended: an entry that is neither a regular file, a directory nor a *)
(* symlink is never relocated on its own: no relocation and no stats update  *)
(* is ever made for it; it leaves its original path only inside a directory  *)
(* above it that is relocated as a unit, and is then at the mirrored path.   *)
C10_SpecialNeverRelocatedAlone ==
    \A p \in Walked :
        hist.fs0[p].kind = "other" =>
            /\ \A m \in hist.moved : m.src # p
            /\ Untouched(p) \/ WentWithDirectory(p)

\* a live run is over that visited a special file, left it, and relocated a
\* file beside it
C10_Witness ==
    /\ pc = "done" /\ ~cfg.dry_run
    /\ \E v, w \in hist.visited :
          /\ Visited(v).kind = "other" /\ Untouched(v.path)
          /\ Parent(w.path) = Parent(v.path)
          /\ Visited(w).kind = "file" /\ MovedTo(w)

-----------------------------------------------------------------------------
(* Sums of file lengths, taken over a flat set of paths *)

RECURSIVE SumLen(_, _)
SumLen(f, S) ==
    IF S = {} THEN 0
    ELSE LET q == CHOOSE x \in S : TRUE IN f[q].len + SumLen(f, S \ {q})

\* the regular files at or beneath p
FilesBeneath(f, p) == {q \in Subtree(f, p) : f[q].kind = "file"}

FileBytes(f, p) == SumLen(f, FilesBeneath(f, p))

-----------------------------------------------------------------------------
-----------------------------------------------------------------------------
\* the regular files that are gone from the path the engine found them at
\* and are now at the mirrored path under the other root
RelocatedFiles ==
    {p \in Walked : /\ hist.fs0[p].kind = "file"
                    /\ ~Exists(fs, p)
                    /\ Exists(fs, DestOf(p)) /\ fs[DestOf(p)] = hist.fs0[p]}

\* the regular files a dry run reported as relocated, on their own or inside
\* a directory, each with the run that reported it
ReportedFiles ==
    {x \in (1..runs) \X DOMAIN hist.fs0 :
        /\ hist.fs0[x[2]].kind = "file"
        /\ \E m \in hist.moved : m.run = x[1] /\ IsPrefix(m.src, x[2])}

RECURSIVE SumReported(_)
SumReported(S) ==
    IF S = {} THEN 0
    ELSE LET x == CHOOSE y \in S : TRUE IN hist.fs0[x[2]].len + SumReported(S \ {x})

-----------------------------------------------------------------------------
\* what lay at or beneath the directory of visit v when its run began
Beneath(v) == Subtree(StartOf(v.run), v.path)

\* every regular file beneath the visited directory that no exclusion
\* pattern matches satisfies the time predicate
AllFilesMatch(v) ==
    \A q \in Beneath(v) :
        (StartOf(v.run)[q].kind = "file" /\ ~PathExcluded(q)) =>
            is_file_matching(cfg, now, StartOf(v.run)[q])

\* the visited directory is gone from its path and everything that lay at or
\* beneath it is at the mirrored path
DirMovedTo(v) ==
    /\ ~Exists(fs, v.path)
    /\ \A q \in Beneath(v) :
          Exists(fs, DestOf(q)) /\ fs[DestOf(q)] = StartOf(v.run)[q]

\* the run of visit v made exactly one relocation at or beneath its path:
\* that of the directory itself
OneUnit(v) ==
    \A m \in hist.moved :
        (m.run = v.run /\ IsPrefix(v.path, m.src)) => (m.src = v.path /\ m.is_dir)

(* C13 as stated: after a live run every visited directory all of whose     *)
(* non-excluded, non-symlink files satisfy the time predicate has been       *)
(* relocated as one unit, nothing beneath it being counted on its own.       *)
C13_Original ==
    (pc = "done" /\ ~cfg.dry_run) =>
        \A v \in hist.visited :
            (Visited(v).kind = "dir" /\ AllFilesMatch(v)) =>
                /\ DirMovedTo(v) /\ OneUnit(v)
                /\ stats.files_moved = Cardinality(IndividualFiles)

(* C13, amended: after a live run every visited directory that has no       *)
(* excluded path and no unlistable directory at or beneath it, all of whose  *)
(* regular files satisfy the time predicate and whose relocation step did    *)
(* not fail, has been relocated as one unit, nothing beneath it being        *)
(* relocated or counted on its own.                                          *)
C13_WholeDirectory ==
    (pc = "done" /\ ~cfg.dry_run) =>
        \A v \in hist.visited :
            ( /\ Visited(v).kind = "dir" /\ AllFilesMatch(v)
              /\ \A q \in Beneath(v) :
                    /\ ~PathExcluded(q)
                    /\ StartOf(v.run)[q].kind = "dir" => StartOf(v.run)[q].readable
              /\ ~FailedAt(v) ) =>
                /\ DirMovedTo(v) /\ OneUnit(v)
                /\ stats.files_moved = Cardinality(IndividualFiles)

\* a live run is over that relocated as a unit a visited directory holding a
\* matching file and a sub-directory, and counted no file
C13_Witness ==
    /\ pc = "done" /\ ~cfg.dry_run /\ stats.files_moved = 0 /\ stats.dirs_moved = 1
    /\ \E v \in hist.visited :
          /\ Visited(v).kind = "dir" /\ DirMovedTo(v) /\ OneUnit(v)
          /\ \E q, d \in Beneath(v) \ {v.path} :
                /\ StartOf(v.run)[q].kind = "file"
                /\ StartOf(v.run)[d].kind = "dir"

-----------------------------------------------------------------------------
\* the regular file at p fails the time predicate or is excluded
BadFile(p) ==
    /\ hist.fs0[p].kind = "file"
    /\ ~is_file_matching(cfg, now, hist.fs0[p]) \/ PathExcluded(p)

-----------------------------------------------------------------------------
\* FileMover::new has returned: an engine, or an error
Constructed == pc # "unbuilt"
ConstructionFailed == pc = "failed"

(* C15 as stated: constructing the engine with identical source and         *)
(* temporary roots fails; no engine is built.                                *)
C15_SameRootsRejected ==
    (Constructed /\ hist.cli.source = hist.cli.temporary) => ConstructionFailed

-----------------------------------------------------------------------------
\* the string is a non-negative integer: one decimal digit or more
IsNat(s) == s # <<>> /\ \A i \in 1..Len(s) : s[i] \in {Digits[d] : d \in 1..10}

\* its value, read from the left
RECURSIVE NatFrom(_, _)
NatFrom(acc, s) ==
    IF s = <<>> THEN acc
    ELSE NatFrom(10 * acc + (CHOOSE n \in 0..9 : Digits[n + 1] = Head(s)), Tail(s))

\* the part of the day string that follows its sign
Remainder(s) == IF s # <<>> /\ s[1] \in {"+", "-"} THEN Tail(s) ELSE s

\* the comparison a well-formed day string stands for
Meaning(s) ==
    [tag |-> IF s[1] = "+" THEN "MoreThan" ELSE IF s[1] = "-" THEN "LessThan" ELSE "Exact",
     n   |-> NatFrom(0, Remainder(s))]

-----------------------------------------------------------------------------
(* C17: construction fails when any exclusion pattern does not compile, and *)
(* a failed construction has changed nothing in the source and destination   *)
(* trees.                                                                    *)
C17_FailedConstruction ==
    /\ (Constructed /\ \E i \in 1..Len(hist.cli.exclude) : hist.cli.exclude[i] = BadPattern)
          => ConstructionFailed
    /\ ConstructionFailed =>
          /\ fs = hist.fs0
          /\ \/ ~IsNat(Remainder(hist.cli.days))
             \/ \E i \in 1..Len(hist.cli.exclude) : hist.cli.exclude[i] = BadPattern

\* construction failed on the second of two patterns, the day string being
\* well formed and the source holding a file
C17_Witness ==
    /\ ConstructionFailed
    /\ hist.cli.days = <<"+", "1">>
    /\ Len(hist.cli.exclude) = 2 /\ hist.cli.exclude[2] = BadPattern
    /\ \E p \in DOMAIN fs : fs[p].kind = "file"

-----------------------------------------------------------------------------
\* the relocation steps that failed in the run now under way or just over
FailedNow == {f \in hist.failed : f.run = runs}

(* C18: when a relocation step fails at level k, no node of a level deeper  *)
(* than k is ever visited in that run, execute() returns a failure, the      *)
(* entry whose relocation failed is still at its source path, and what was   *)
(* relocated at the levels before k is still relocated.                      *)
C18_FailureStopsTraversal ==
    ~cfg.dry_run =>
        \A f \in FailedNow :
            /\ \A v \in hist.visited : v.run = f.run => v.level <= f.level
            /\ pc = "done" =>
                  /\ result = "Err"
                  /\ Stays(f)
                  /\ \A v \in hist.visited :
                        (v.run = f.run /\ v.level < f.level /\ RelocatedAt(v)) => MovedTo(v)

\* a run is over that failed at the second level, having relocated a file at
\* the first and left a directory of the second level unentered
C18_Witness ==
    /\ pc = "done" /\ result = "Err" /\ runs = 1
    /\ \E f \in FailedNow :
          /\ f.level = 2 /\ Stays(f)
          /\ \E v \in hist.visited : v.level = 1 /\ RelocatedAt(v) /\ MovedTo(v)
          /\ \E d \in hist.visited :
                /\ d.level = 2 /\ Visited(d).kind = "dir" /\ Exists(fs, d.path)
                /\ Entries(fs, d.path) # {}
                /\ \A q \in Entries(fs, d.path), v \in hist.visited : v.path # q

-----------------------------------------------------------------------------
(* C19: every execute() on a finite tree, symlinks inside directories       *)
(* included, terminates: it returns success and its work queue is empty;     *)
(* no path is visited twice in a run, a symlink leading nowhere.             *)
C19_Terminates ==
    /\ (pc = "loop") ~> (pc = "done" /\ result = "Ok" /\ queue = <<>>)
    /\ [](\A v, w \in hist.visited : (v.run = w.run /\ v.path = w.path) => v = w)

\* a run has returned success that met a symlink inside a directory, which
\* is still there
C19_Witness ==
    /\ pc = "done" /\ result = "Ok" /\ queue = <<>>
    /\ \E v \in hist.visited :
          /\ v.level = 2 /\ Visited(v).kind = "symlink"
          /\ Exists(fs, v.path) /\ Entries(fs, v.path) = {}

-----------------------------------------------------------------------------
\* the visited directory does not qualify: it has an excluded path, a
\* directory that cannot be listed, or a file that fails the time predicate
\* at or beneath it
NotQualifying(v) ==
    /\ Visited(v).kind = "dir"
    /\ \E q \in Beneath(v) :
          \/ PathExcluded(q)
          \/ StartOf(v.run)[q].kind = "dir" /\ ~StartOf(v.run)[q].readable
          \/ StartOf(v.run)[q].kind = "file"
                /\ ~is_file_matching(cfg, now, StartOf(v.run)[q])

(* C20: a directory that does not qualify is never moved or removed: after  *)
(* execute() it is still a directory at its source path, and each of its     *)
(* descendants that was relocated is at the mirrored path, under a directory *)
(* of the same name in the destination.                                      *)
C20_DirectoryKept ==
    \A v \in hist.visited :
        NotQualifying(v) =>
            /\ Exists(fs, v.path) /\ fs[v.path].kind = "dir"
            /\ \A m \in hist.moved : m.src # v.path
            /\ \A m \in hist.moved :
                  (m.live /\ m.run = v.run /\ IsStrictPrefix(v.path, m.src) /\ pc = "done") =>
                      /\ ~Exists(fs, m.src)
                      /\ Exists(fs, DestOf(m.src))
                      /\ fs[DestOf(m.src)] = StartOf(m.run)[m.src]
                      /\ Exists(fs, DestOf(v.path)) /\ fs[DestOf(v.path)].kind = "dir"

\* a live run is over in which a directory kept a file that does not match
\* while the file beside it went to the directory of the same name that was
\* made for it in the destination
C20_Witness ==
    /\ pc = "done" /\ ~cfg.dry_run
    /\ \E v \in hist.visited :
          /\ NotQualifying(v) /\ Exists(fs, v.path)
          /\ ~Exists(hist.fs0, DestOf(v.path)) /\ Exists(fs, DestOf(v.path))
          /\ \E m \in IndividualFiles :
                /\ Parent(m.src) = v.path /\ m.run = v.run
                /\ ~Exists(fs, m.src) /\ Exists(fs, DestOf(m.src))
          /\ \E q \in Entries(fs, v.path) : fs[q].kind = "file"

-----------------------------------------------------------------------------
(* C21: is_directory_matching(dir) is true iff dir is not excluded, its     *)
(* listing and that of every sub-directory beneath it can be read, no entry  *)
(* at any depth beneath it is excluded and every regular file beneath it     *)
(* satisfies the time predicate, in whatever order the entries of each       *)
(* directory are enumerated; the engine moves a visited directory as a unit  *)
(* exactly when it is true.                                                  *)
C21_DirectoryQualifies ==
    \A v \in hist.visited :
        (CanStat(StartOf(v.run), v.path) /\ Visited(v).kind = "dir") =>
            LET f == StartOf(v.run)
                stated ==
                    /\ \A q \in Subtree(f, v.path) :
                          /\ ~PathExcluded(q)
                          /\ f[q].kind = "dir" => f[q].readable
                          /\ f[q].kind = "file" => is_file_matching(cfg, now, f[q])
            IN /\ \A rev \in SUBSET {q \in Subtree(f, v.path) : f[q].kind = "dir"} :
                     is_directory_matching_ordered(cfg, now, f, v.path, rev) = stated
               /\ RelocatedAt(v) <=> stated

-----------------------------------------------------------------------------
(* C22: the level barrier.  Once a WorkItem of some level has started, every *)
(* WorkItem of every earlier level of the run (and of every earlier run) has *)
(* been fully processed: its decision is made, no worker is still at it, and *)
(* every relocation made so far is in the counters except those of workers   *)
(* that are between their relocation and their stats update.                 *)
C22_LevelBarrier ==
    LET InProgress ==
            {[path |-> current_level[i][1], level |-> hist.level, run |-> runs] :
                i \in {k \in 1..Len(workers) : pc = "level" /\ workers[k].pc # "done"}}
    IN /\ stats.files_moved + stats.dirs_moved
             + Cardinality({i \in 1..Len(workers) : workers[i].pc = "stats"})
          = Cardinality(hist.moved)
       /\ \A v \in hist.visited : \A w \in hist.items :
             (w.run < v.run \/ (w.run = v.run /\ w.level < v.level)) =>
                 w \in hist.visited /\ w \notin InProgress

\* the third level is in progress, one worker before its stats update and
\* the other not yet started, the two levels before it each with a relocation
C22_Witness ==
    /\ pc = "level" /\ hist.level = 3
    /\ \E i, j \in 1..Len(workers) : workers[i].pc = "stats" /\ workers[j].pc = "start"
    /\ \A k \in 1..2 : \E v \in hist.visited : v.level = k /\ RelocatedAt(v)
    /\ \E v \in hist.visited : v.level = 2 /\ ~RelocatedAt(v)

-----------------------------------------------------------------------------
\* the visit of the directory that holds the path visited by v, in v's run
ParentVisit(v) == [path |-> Parent(v.path), level |-> v.level - 1, run |-> v.run]

\* what was enqueued or visited at a path strictly beneath d
Descending(d) == {w \in hist.items \cup hist.visited : IsStrictPrefix(d, w.path)}

(* C23: an entry beneath the top level is visited only when its parent       *)
(* directory was visited at the level before, in the same run, and was found  *)
(* non-qualifying (no relocation of it was attempted); from the run in which  *)
(* a directory is relocated as a unit on, nothing beneath it is enqueued or   *)
(* visited.                                                                   *)
C23_ChildrenAfterParent ==
    /\ \A v \in hist.visited :
          Len(v.path) > Len(FromRoot(cfg)) + 1 =>
              /\ ParentVisit(v) \in hist.visited
              /\ ~RelocatedAt(ParentVisit(v)) /\ ~FailedAt(ParentVisit(v))
              /\ NotQualifying(ParentVisit(v))
    /\ \A m \in WholeDirectories : \A w \in Descending(m.src) : w.run < m.run

\* a live run is over in which a directory with an entry in it was relocated
\* as a unit at the second level, its parent having been visited and kept
C23_Witness ==
    /\ pc = "done" /\ ~cfg.dry_run
    /\ \E v \in hist.visited :
          /\ v.level = 2 /\ Visited(v).kind = "dir" /\ Beneath(v) # {v.path}
          /\ RelocatedAt(v) /\ DirMovedTo(v)
          /\ ParentVisit(v) \in hist.visited /\ Stays(ParentVisit(v))
          /\ Descending(v.path) = {}

-----------------------------------------------------------------------------
\* the paths handed out as WorkItems at level k of run r
ItemsOf(r, k) == {w.path : w \in {x \in hist.items : x.run = r /\ x.level = k}}

\* the entries of the directories visited at level k of run r that were not
\* excluded, did not qualify and could be listed
ChildrenOf(r, k) ==
    UNION {Entries(StartOf(r), v.path) :
              v \in {x \in hist.visited :
                        /\ x.run = r /\ x.level = k
                        /\ ~PathExcluded(x.path)
                        /\ NotQualifying(x)
                        /\ Visited(x).readable}}

\* a directory that qualifies: nothing at or beneath it is excluded, cannot
\* be listed or is a file failing the time predicate
Qualifying(v) == Visited(v).kind = "dir" /\ ~NotQualifying(v)

(* C24: the WorkItems of each level after the first are exactly the          *)
(* immediate children of the directories visited at the level before that    *)
(* were not excluded, did not qualify and could be listed, and a run that     *)
(* ends well has handed out every such child; a qualifying sub-directory of   *)
(* a directory that did not qualify is relocated as a unit at the level after *)
(* its parent's.                                                              *)
C24_NextLevel ==
    \A r \in 1..runs : \A k \in 1..MaxNodes :
        /\ ItemsOf(r, k + 1) # {} => ItemsOf(r, k + 1) = ChildrenOf(r, k)
        /\ (r = runs /\ pc = "done" /\ result = "Ok") =>
              /\ ItemsOf(r, k + 1) = ChildrenOf(r, k)
              /\ \A v \in hist.visited :
                    (v.run = r /\ v.level = k + 1 /\ Qualifying(v)) =>
                        \E m \in WholeDirectories : m.src = v.path /\ m.run = r

\* a run is over in which a directory was visited and kept at the first
\* level, and at the second its file was visited alone and its sub-directory,
\* with an entry in it, was relocated as a unit
C24_Witness ==
    /\ pc = "done" /\ result = "Ok" /\ runs = 1
    /\ Cardinality(ItemsOf(1, 2)) = 2 /\ ItemsOf(1, 3) = {}
    /\ \E v \in hist.visited :
          /\ v.level = 2 /\ Qualifying(v) /\ Beneath(v) # {v.path}
          /\ \E m \in WholeDirectories : m.src = v.path
          /\ NotQualifying(ParentVisit(v))

-----------------------------------------------------------------------------
\* the level of visit v is over: every worker of it has returned
LevelOver(v) == v.run < runs \/ v.level < hist.level \/ pc \in {"loop", "done"}

-----------------------------------------------------------------------------
\* the WorkItems handed out together with the one visited by v
SameLevel(v) == {w \in hist.items : w.run = v.run /\ w.level = v.level}

(* C26: when the relocation of a WorkItem has failed and the level is over,  *)
(* every other WorkItem of that level was processed: each is visited, a       *)
(* matching regular file and a qualifying directory among them whose own      *)
(* relocation did not fail is at the mirrored path, and the counters hold     *)
(* every relocation made: one file or directory each, and the bytes of the    *)
(* regular files that are now in the destination.                             *)
C26_FailureIsolation ==
    (~cfg.dry_run /\ pc = "done") =>
        \A f \in FailedNow :
            /\ \A w \in SameLevel(f) :
                  /\ w \in hist.visited
                  /\ (w \notin hist.failed /\ ~PathExcluded(w.path)) =>
                        /\ ( Visited(w).kind = "file"
                             /\ is_file_matching(cfg, now, Visited(w)) ) =>
                                RelocatedAt(w) /\ MovedTo(w)
                        /\ Qualifying(w) => RelocatedAt(w) /\ DirMovedTo(w)
            /\ stats.files_moved = Cardinality(IndividualFiles)
            /\ stats.dirs_moved = Cardinality(WholeDirectories)
            /\ stats.total_size = SumLen(hist.fs0, RelocatedFiles)

\* a run has failed on one entry of the top level, the directory beside it,
\* which holds a regular file, relocated as a unit and counted
C26_Witness ==
    /\ pc = "done" /\ result = "Err" /\ runs = 1 /\ ~cfg.dry_run
    /\ \E f \in FailedNow : \E w \in SameLevel(f) :
          /\ Stays(f)
          /\ Qualifying(w) /\ FilesBeneath(StartOf(1), w.path) # {}
          /\ RelocatedAt(w) /\ DirMovedTo(w)
          /\ stats = [files_moved |-> 0, dirs_moved |-> 1,
                      total_size |-> FileBytes(StartOf(1), w.path)]

-----------------------------------------------------------------------------
(* C27: an I/O error met at a node other than a failed rename or a failed    *)
(* parent-directory creation (a root or directory that cannot be listed, an   *)
(* entry whose metadata cannot be read) never makes execute() fail: a run in  *)
(* which no relocation step failed returns success.                           *)
C27_IOErrorsNeverFail ==
    (pc = "done" /\ FailedNow = {}) => result = "Ok"

-----------------------------------------------------------------------------
(* C28: a directory whose listing cannot be read never qualifies, and        *)
(* neither does any directory above it: no relocation of it or of a          *)
(* directory above it is ever attempted, it stays where it is as it is, and   *)
(* nothing beneath it is ever enqueued.                                       *)
C28_UnlistableNeverQualifies ==
    \A d \in Walked :
        (hist.fs0[d].kind = "dir" /\ ~hist.fs0[d].readable) =>
            /\ \A v \in hist.visited :
                  IsPrefix(v.path, d) => ~RelocatedAt(v) /\ ~FailedAt(v)
            /\ Untouched(d) /\ ~Carried(d)
            /\ Descending(d) = {}

-----------------------------------------------------------------------------
\* the stats update of worker i is the step being taken
StatsStep(i) ==
    /\ i \in 1..Len(workers) /\ workers[i].pc = "stats"
    /\ Len(workers') = Len(workers) /\ workers'[i].pc = "done"

(* C29: a visited directory that is not excluded and whose listing yields   *)
(* no entry qualifies whatever the time predicate is: it is relocated as a    *)
(* unit, and its stats update adds 1 to directories-relocated and nothing to  *)
(* total-size and files-relocated.                                            *)
C29_EmptyDirectory ==
    /\ [](\A v \in hist.visited :
            ( /\ Visited(v).kind = "dir" /\ Visited(v).readable
              /\ Beneath(v) = {v.path} /\ ~PathExcluded(v.path) ) =>
                \E m \in WholeDirectories : m.src = v.path /\ m.run = v.run)
    /\ [][\A i \in 1..Len(workers) :
            ( /\ StatsStep(i) /\ workers[i].is_dir
              /\ Entries(fs, workers[i].path) = {} ) =>
                stats' = [stats EXCEPT !.dirs_moved = @ + 1]]_vars

\* a live run under OlderThanDays has relocated an empty directory and
\* nothing else, a file newer than the day count staying behind
C29_Witness ==
    /\ pc = "done" /\ ~cfg.dry_run /\ cfg.time_comparison.tag = "MoreThan"
    /\ stats = [files_moved |-> 0, dirs_moved |-> 1, total_size |-> 0]
    /\ \E v, w \in hist.visited :
          /\ Visited(v).kind = "dir" /\ Beneath(v) = {v.path} /\ DirMovedTo(v)
          /\ Visited(w).kind = "file" /\ Stays(w)

-----------------------------------------------------------------------------
(* C30: a regular file whose modification time lies in the future has age 0  *)
(* days: when visited it is never relocated under OlderThanDays(n), it is     *)
(* relocated under ExactDays(n) only for n = 0, and under NewerThanDays(n)    *)
(* exactly when n >= 1.                                                       *)
C30_FutureFile ==
    \A v \in hist.visited :
        (Visited(v).kind = "file" /\ Visited(v).modified > now) =>
            LET n == cfg.time_comparison.n
                tag == cfg.time_comparison.tag
            IN /\ AgeDays(now, Visited(v).modified) = 0
               /\ tag = "MoreThan" => ~RelocatedAt(v)
               /\ tag = "Exact"    => (RelocatedAt(v) <=> n = 0)
               /\ tag = "LessThan" => (RelocatedAt(v) <=> n >= 1)

\* a file dated MaxDays days ahead was visited under ExactDays(MaxDays) and
\* left where it is
C30_Witness ==
    /\ pc = "done" /\ ~cfg.dry_run
    /\ cfg.time_comparison = Exact(MaxDays)
    /\ \E v \in hist.visited :
          /\ Visited(v).kind = "file"
          /\ Visited(v).modified = now + MaxDays * SecondsPerDay
          /\ ~RelocatedAt(v) /\ Stays(v)

-----------------------------------------------------------------------------
\* the path under the destination root that mirrors q, which lies at or
\* beneath src, when src goes to dest
Mirror(src, dest, q) == Join(dest, Below(src, q))

(* C31: every relocation preserves the relative path.  Each WorkItem pairs   *)
(* <from-root>/<rel> with rel; a step that renames takes the entry found at   *)
(* <from-root>/<rel>, with all that lies beneath it, to <to-root>/<rel> and    *)
(* to no other path, every ancestor directory of <to-root>/<rel> being there;  *)
(* a step whose relocation fails renames nothing, and when the creation of     *)
(* the ancestors did not fail they all exist.                                  *)
C31_RelativePathPreserved ==
    /\ [](\A i \in 1..Len(current_level) :
             current_level[i][1] = Join(FromRoot(cfg), current_level[i][2]))
    /\ [][\A m \in hist.moved' \ hist.moved :
            m.live =>
                LET dest == Join(ToRoot(cfg), m.rel)
                    gone == Subtree(fs, m.src)
                IN /\ m.src = Join(FromRoot(cfg), m.rel)
                   /\ Exists(fs, m.src)
                   /\ DOMAIN fs' = ((DOMAIN fs \ gone) \cup Prefixes(Parent(dest)))
                                      \cup {Mirror(m.src, dest, q) : q \in gone}
                   /\ \A q \in gone : fs'[Mirror(m.src, dest, q)] = fs[q]
                   /\ \A q \in DOMAIN fs \ (gone \cup {dest}) : fs'[q] = fs[q]
                   /\ \A q \in Prefixes(Parent(dest)) : fs'[q].kind = "dir"]_vars
    /\ [][\A f \in hist.failed' \ hist.failed :
            LET dest == Join(ToRoot(cfg), Below(FromRoot(cfg), f.path))
            IN /\ \A q \in DOMAIN fs : Exists(fs', q) /\ fs'[q] = fs[q]
               /\ DOMAIN fs' \subseteq DOMAIN fs \cup Prefixes(Parent(dest))
               /\ create_parent_directories_ok(fs, dest) =>
                     \A q \in Prefixes(Parent(dest)) : Exists(fs', q)]_vars

\* a file of the third level is at the mirrored path, in two directories
\* that the relocation made, and a file of the second level is there too
C31_Witness ==
    /\ pc = "done" /\ result = "Ok"
    /\ \E m, n \in hist.moved :
          /\ m.live /\ ~m.is_dir /\ Len(m.rel) = 3
          /\ Exists(fs, Join(ToRoot(cfg), m.rel)) /\ ~Exists(fs, m.src)
          /\ ~Exists(hist.fs0, Join(ToRoot(cfg), <<m.rel[1]>>))
          /\ n.live /\ Len(n.rel) = 2 /\ Exists(fs, Join(ToRoot(cfg), n.rel))

-----------------------------------------------------------------------------
\* the workers between their relocation and their stats update
AtStats(is_dir) ==
    {i \in 1..Len(workers) : workers[i].pc = "stats" /\ workers[i].is_dir = is_dir}

(* C32: under every interleaving of the workers of a level no counter update *)
(* is lost or made twice: at every moment each counter and the updates still  *)
(* to come add up to the relocations made, and at the end of a run            *)
(* files-relocated is the number of individual file relocations and           *)
(* directories-relocated the number of whole-directory relocations.           *)
C32_NoLostUpdate ==
    /\ stats.files_moved + Cardinality(AtStats(FALSE)) = Cardinality(IndividualFiles)
    /\ stats.dirs_moved + Cardinality(AtStats(TRUE)) = Cardinality(WholeDirectories)
    /\ pc = "done" =>
          /\ stats.files_moved = Cardinality(IndividualFiles)
          /\ stats.dirs_moved = Cardinality(WholeDirectories)

\* a live run is over in which two files of one level were relocated, and
\* both are counted
C32_Witness ==
    /\ pc = "done" /\ result = "Ok" /\ runs = 1
    /\ stats.files_moved = 2 /\ stats.dirs_moved = 0
    /\ \E m, n \in IndividualFiles : m # n /\ Len(m.rel) = Len(n.rel) /\ m.live /\ n.live

-----------------------------------------------------------------------------
\* no counter of st is above its counterpart in su
NotAbove(st, su) ==
    /\ st.files_moved <= su.files_moved
    /\ st.dirs_moved <= su.dirs_moved
    /\ st.total_size <= su.total_size

(* C33: over every step taken with one and the same engine each of the      *)
(* three counters stays or grows; a call of execute() leaves them as they     *)
(* are, so that a second run continues from the values of the first; the      *)
(* step that builds a new engine, and no other, puts them at 0/0/0.           *)
C33_CountersMonotone ==
    /\ [][hist.engines' = hist.engines => NotAbove(stats, stats')]_vars
    /\ [][runs' = runs + 1 => stats' = stats]_vars
    /\ [][hist.engines' # hist.engines => stats' = ZeroStats]_vars
    /\ [](runs = 0 => stats = ZeroStats)

\* the second run of a live engine is over, the counters holding what its
\* first run counted, the dry run of the engine before it having counted
\* the same
C33_Witness ==
    /\ pc = "done" /\ runs = 2 /\ hist.engines = 2 /\ ~cfg.dry_run
    /\ stats.files_moved + stats.dirs_moved >= 2 /\ stats.total_size > 0
    /\ hist.prev[1].stats = stats
    /\ \A m \in hist.moved : m.run = 1

-----------------------------------------------------------------------------
(* C34: within one run every path is a WorkItem at most once and is          *)
(* relocated at most once: the WorkItems of a level are pairwise distinct,    *)
(* no path is handed out at two levels, each WorkItem is at or past its one   *)
(* visit, and a path that was relocated is not waiting in the queue.          *)
C34_AtMostOnce ==
    /\ \A i, j \in 1..Len(current_level) :
          current_level[i][1] = current_level[j][1] => i = j
    /\ \A i, j \in 1..Len(queue) : queue[i][1] = queue[j][1] => i = j
    /\ \A w, x \in hist.items : (w.run = x.run /\ w.path = x.path) => w.level = x.level
    /\ \A v, x \in hist.visited : (v.run = x.run /\ v.path = x.path) => v.level = x.level
    /\ \A i \in 1..Len(queue) :
          /\ \A w \in hist.items : w.run = runs => w.path # queue[i][1]
          /\ \A m \in hist.moved : m.run = runs => m.src # queue[i][1]
    /\ \A m, n \in hist.moved : (m.run = n.run /\ m.src = n.src) => m = n

\* a live run is over that handed out two WorkItems at each of two levels
\* and relocated one of each
C34_Witness ==
    /\ pc = "done" /\ ~cfg.dry_run /\ runs = 1
    /\ \A k \in 1..2 :
          /\ Cardinality(ItemsOf(1, k)) = 2
          /\ \E m \in hist.moved : m.live /\ Len(m.rel) = k

-----------------------------------------------------------------------------
(* C35: when the destination root is not inside the root that is walked, the *)
(* workers of one level work on subtrees that are apart.  A step of one      *)
(* worker changes no path at or beneath the WorkItem of another worker of    *)
(* the level, which is what that worker's qualification check reads and, in  *)
(* a dry run, its size computation; it changes no path at or beneath the     *)
(* place another worker has relocated its WorkItem to, which is what that    *)
(* worker's size computation reads in a live run; and the places two workers *)
(* of a level have relocated to are apart from each other and from the       *)
(* WorkItems of both.  This is so whatever the order of the steps.           *)

\* the paths that the step creates, removes or gives another content
Touched ==
    {q \in DOMAIN fs \cup DOMAIN fs' :
        \/ q \notin DOMAIN fs
        \/ q \notin DOMAIN fs'
        \/ fs[q] # fs'[q]}

\* worker i of the level has renamed its WorkItem
Renamed(i) ==
    \E m \in hist.moved : m.run = runs /\ m.live /\ m.src = current_level[i][1]

\* the place WorkItem i of the level is relocated to
Target(i) == Join(ToRoot(cfg), current_level[i][2])

\* neither path is at or beneath the other
Apart(p, q) == ~IsPrefix(p, q) /\ ~IsPrefix(q, p)

C35_DisjointSubtrees ==
    /\ [][(pc = "level" /\ ~IsPrefix(FromRoot(cfg), ToRoot(cfg))) =>
             \A i \in 1..Len(workers) :
                 workers'[i] = workers[i] =>
                     \A q \in Touched :
                        /\ ~IsPrefix(current_level[i][1], q)
                        /\ Renamed(i) => ~IsPrefix(Target(i), q)]_vars
    /\ []((pc = "level" /\ ~IsPrefix(FromRoot(cfg), ToRoot(cfg))) =>
             \A i, j \in 1..Len(workers) :
                 (i # j /\ Renamed(i) /\ Renamed(j)) =>
                     /\ Apart(Target(i), Target(j))
                     /\ Apart(Target(i), current_level[j][1]))

\* the root walked lies inside the destination root; one worker of a level
\* has relocated its WorkItem while another, whose WorkItem is a directory,
\* has not begun
C35_Witness ==
    /\ pc = "level" /\ IsStrictPrefix(ToRoot(cfg), FromRoot(cfg))
    /\ \E i, j \in 1..Len(workers) :
          /\ workers[i].pc = "start"
          /\ Exists(fs, current_level[i][1]) /\ fs[current_level[i][1]].kind = "dir"
          /\ Renamed(j)

-----------------------------------------------------------------------------
(* C36: the filesystem and the three counters at the end of a run in which   *)
(* nothing failed are those of the run that takes the WorkItems of each      *)
(* level one after the other, each to its end: the outcome does not depend   *)
(* on the order in which the workers of a level take their steps.            *)

\* the WorkItems of a level from the k-th on, each processed to its end
\* before the next begins: the filesystem and counters left, the children
\* returned, and whether a worker returned an error
RECURSIVE SequentialLevel(_, _, _, _, _, _, _)
SequentialLevel(c, t, f, refused, st, items, k) ==
    IF k > Len(items)
    THEN [fs |-> f, stats |-> st, children |-> <<>>, ok |-> TRUE]
    ELSE LET e == process_node(c, t, f, refused, items[k][1], items[k][2], ToRoot(c))
             u == IF e.pending
                  THEN update_stats(st, e.fs, e.path, e.is_dir)
                  ELSE [stats |-> st, res |-> e.res]
             rest == SequentialLevel(c, t, e.fs, refused, u.stats, items, k + 1)
         IN [fs |-> rest.fs, stats |-> rest.stats,
             children |-> e.children \o rest.children,
             ok |-> rest.ok /\ u.res = "Ok"]

\* bfs_and_process with one worker
RECURSIVE SequentialRun(_, _, _, _, _, _)
SequentialRun(c, t, f, refused, st, q) ==
    IF q = <<>> THEN [fs |-> f, stats |-> st, ok |-> TRUE]
    ELSE LET level == SequentialLevel(c, t, f, refused, st, q, 1)
         IN IF ~level.ok THEN [fs |-> level.fs, stats |-> level.stats, ok |-> FALSE]
            ELSE SequentialRun(c, t, level.fs, refused, level.stats, level.children)

\* the first run of the engine, had the pool one worker
OneByOne ==
    SequentialRun(cfg, now, StartOf(1), failRename, ZeroStats,
                  IF CanList(StartOf(1), FromRoot(cfg))
                  THEN WorkItems(StartOf(1), FromRoot(cfg), <<>>)
                  ELSE <<>>)

C36_Determinism ==
    (pc = "done" /\ runs = 1 /\ hist.engines = 1 /\ result = "Ok" /\ FailedNow = {}) =>
        (OneByOne.ok => (fs = OneByOne.fs /\ stats = OneByOne.stats))

-----------------------------------------------------------------------------
(* C37: at the end of a live run that began with an empty destination and    *)
(* in which nothing failed, every entry of the initial tree is accounted     *)
(* for.  As stated: each file and each directory is, as it was, at exactly   *)
(* one of <from>/<rel> and <to>/<rel>, and the two roots hold nothing else.  *)
(* As the code has it: that holds of every entry that is no directory; a     *)
(* directory is at <from>/<rel> or at <to>/<rel> as it was, and it is at     *)
(* both exactly when it stayed in the source and an entry beneath it was     *)
(* relocated, <to>/<rel> being the directory that was created to receive     *)
(* that entry.                                                               *)

\* the relative paths of the tree under the root walked, as run 1 found it
InitialRels ==
    {Below(FromRoot(cfg), q) :
        q \in {x \in DOMAIN StartOf(1) : IsStrictPrefix(FromRoot(cfg), x)}}

\* the entry of the initial tree at rel
InitialNode(rel) == StartOf(1)[Join(FromRoot(cfg), rel)]

\* the entry of the initial tree at rel is now at root/rel
IsAt(root, rel) ==
    Exists(fs, Join(root, rel)) /\ fs[Join(root, rel)] = InitialNode(rel)

\* a first live run has ended, nothing failed, the destination was empty
LiveRunOver ==
    /\ pc = "done" /\ runs = 1 /\ hist.engines = 1 /\ ~cfg.dry_run
    /\ result = "Ok" /\ FailedNow = {}
    /\ Entries(StartOf(1), ToRoot(cfg)) = {}

\* the two roots hold nothing but the relative paths of the initial tree
NothingElse ==
    \A q \in DOMAIN fs :
        \/ q \in {FromRoot(cfg), ToRoot(cfg)}
        \/ \E rel \in InitialRels : q \in {Join(FromRoot(cfg), rel), Join(ToRoot(cfg), rel)}

C37_Original ==
    LiveRunOver =>
        /\ \A rel \in InitialRels :
              /\ Exists(fs, Join(FromRoot(cfg), rel)) # Exists(fs, Join(ToRoot(cfg), rel))
              /\ IsAt(FromRoot(cfg), rel) \/ IsAt(ToRoot(cfg), rel)
        /\ NothingElse

C37_Conservation ==
    LiveRunOver =>
        /\ \A rel \in InitialRels :
              /\ IsAt(FromRoot(cfg), rel) \/ IsAt(ToRoot(cfg), rel)
              /\ InitialNode(rel).kind # "dir" =>
                    Exists(fs, Join(FromRoot(cfg), rel)) # Exists(fs, Join(ToRoot(cfg), rel))
              /\ (Exists(fs, Join(FromRoot(cfg), rel)) /\ Exists(fs, Join(ToRoot(cfg), rel))) <=>
                    /\ InitialNode(rel).kind = "dir"
                    /\ IsAt(FromRoot(cfg), rel)
                    /\ Exists(fs, Join(ToRoot(cfg), rel))
                    /\ fs[Join(ToRoot(cfg), rel)].kind = "dir"
                    /\ \E m \in hist.moved :
                          m.run = 1 /\ m.live /\ IsStrictPrefix(rel, m.rel)
        /\ NothingElse

\* a directory stayed and has a counterpart in the destination, which holds
\* a file that was relocated from it, beside an entry that was left
C37_Witness ==
    /\ LiveRunOver
    /\ \E rel \in InitialRels :
          /\ IsAt(FromRoot(cfg), rel) /\ Exists(fs, Join(ToRoot(cfg), rel))
          /\ \E r1, r2 \in InitialRels :
                /\ Parent(r1) = rel /\ Parent(r2) = rel
                /\ InitialNode(r1).kind = "file" /\ IsAt(ToRoot(cfg), r1)
                /\ IsAt(FromRoot(cfg), r2)

-----------------------------------------------------------------------------
(* C38: after one successful live run of a Move, the one run of a second     *)
(* engine built from the same Cli, at the same time, on the tree the first   *)
(* left relocates nothing: it changes nothing and ends with its three        *)
(* counters at 0.                                                            *)
C38_Idempotent ==
    (/\ hist.engines = 2 /\ runs = 1 /\ pc = "done"
     /\ hist.prev[1].runs = 1 /\ hist.prev[1].result = "Ok" /\ ~hist.prev[1].cfg.dry_run
     /\ hist.prev[1].cfg.mode = "Move") =>
        /\ stats = ZeroStats
        /\ hist.moved = {}
        /\ fs = hist.prev[1].end

-----------------------------------------------------------------------------
(* C39: after a successful live Move from a source into an empty temporary   *)
(* root, without exclusions, the live Restore of an engine with the same     *)
(* roots succeeds and leaves the source tree as it was before the Move, the  *)
(* Move having relocated a directory as a whole or only some of its files.   *)

\* what f holds at and beneath root
TreeAt(f, root) == [q \in Subtree(f, root) |-> f[q]]

C39_RoundTrip ==
    (/\ hist.engines = 2 /\ runs = 1 /\ pc = "done" /\ cfg.mode = "Restore"
     /\ hist.prev[1].runs = 1 /\ hist.prev[1].result = "Ok"
     /\ hist.prev[1].cfg.mode = "Move") =>
        /\ result = "Ok"
        /\ TreeAt(fs, cfg.source) = TreeAt(hist.fs0, cfg.source)

====
